---- MODULE Spec2Model ----
(***************************************************************************)
(* A model of the SL-to-C compiler of src/src/main.rs: the lexer, the      *)
(* recursive-descent parser, the code generator and the driver `main`      *)
(* that chains them behind error gates.                                    *)
(*                                                                         *)
(* Conventions                                                             *)
(*  - a Rust String is a sequence of one-character strings; Str folds it   *)
(*    into one TLA+ string where only equality of names matters;           *)
(*  - every operator that models a Rust method threads a record whose      *)
(*    field st is "ok", "panic" (the method aborted the process: unwrap    *)
(*    on None, index out of bounds) or "hang" (the method entered a loop   *)
(*    whose iteration leaves the cursor where it was: the loop condition   *)
(*    and the body read only the immutable input and the cursor, so the    *)
(*    same iteration repeats forever);                                     *)
(*  - a TokenLocation is the record [start, end].                          *)
(***************************************************************************)
EXTENDS Integers, Sequences, FiniteSets, TLC

VARIABLES
    pc,         \* where main() is: "lex", "parse", "codegen", "done", "panic", "hang"
    lexer,      \* the Lexer struct: contents, tokens, current, errors
    parser,     \* the Parser struct: tokens, statements, current, errors
    codegen,    \* the Codegen struct: statements and the symbol tables
    code,       \* the String `code` that Codegen::codegen builds, as a list of pieces
    next_stmt,  \* index of the top-level statement Codegen::codegen emits next
    printed,    \* what main() printed: the stage whose errors were shown, and the errors
    written     \* whether main() wrote the .c file

vars == <<pc, lexer, parser, codegen, code, next_stmt, printed, written>>

----------------------------------------------------------------------------
(* Bounds of the model *)

\* longest source text, in characters, of the lexer's own specification
MaxSrcLen == 5
\* most lines of a source file given to main()
MaxLines == 2
\* most top-level statements of a statement list given to Codegen::new
MaxStatements == 3

----------------------------------------------------------------------------
(* Characters and strings *)

RECURSIVE Str(_)
Str(s) ==
    IF Len(s) = 0 THEN ""
    ELSE IF Len(s) = 1 THEN s[1]
    ELSE Str(SubSeq(s, 1, Len(s) \div 2)) \o Str(SubSeq(s, Len(s) \div 2 + 1, Len(s)))

Lower == {"a","b","c","d","e","f","g","h","i","j","k","l","m",
          "n","o","p","q","r","s","t","u","v","w","x","y","z"}
Upper == {"A","B","C","D","E","F","G","H","I","J","K","L","M",
          "N","O","P","Q","R","S","T","U","V","W","X","Y","Z"}
Digits == {"0","1","2","3","4","5","6","7","8","9"}

\* a character outside ASCII: one char, two bytes of UTF-8; alphabetic
NonAscii == {"é"}

\* what Lexer::current returns at or past the end of the text
NUL == "NUL"
\* the read that makes Lexer::current abort (unwrap of None)
ABORT == "ABORT"

Utf8Len(c) == IF c \in NonAscii THEN 2 ELSE 1

\* String::len: the length in bytes
ByteLen(s) == Len(s) + Cardinality({i \in 1..Len(s) : Utf8Len(s[i]) = 2})

IsAlphanumeric(c) == c \in Lower \cup Upper \cup Digits \cup NonAscii
IsNumeric(c) == c \in Digits
IsIdentStart(c) == c \in Lower \cup Upper \cup {"_"}

TokenLocation(s, e) == [start |-> s, end |-> e]
\* a token whose span ends where it starts
TokenAtStart(k, v, s, e) == [kind |-> k, value |-> v, location |-> TokenLocation(s, s)]
Token(k, v, s, e) == [kind |-> k, value |-> v, location |-> TokenLocation(s, e)]
SyntaxError(m, s, e) == [name |-> "SyntaxError", message |-> m, location |-> TokenLocation(s, e)]
TypeError(m, loc) == [name |-> "TypeError", message |-> m, location |-> loc]
RuntimeError(m, loc) == [name |-> "RuntimeError", message |-> m, location |-> loc]

----------------------------------------------------------------------------
(* Lexer *)

Keywords ==
    [annotation |-> "Annotation", struct |-> "Struct", enum |-> "Enum", end |-> "End",
     external |-> "External", inline |-> "Inline", func |-> "Func", type |-> "Type",
     var |-> "Var", return |-> "Return", import |-> "Import", as |-> "As",
     sizeof |-> "SizeOf", new |-> "New", true |-> "True", false |-> "False",
     null |-> "Null", if |-> "If", else |-> "Else", while |-> "While", for |-> "For",
     in |-> "In", switch |-> "Switch", case |-> "Case", break |-> "Break",
     continue |-> "Continue", default |-> "Default", int |-> "Int", usize |-> "Usize",
     string |-> "String", cstring |-> "CString", char |-> "Char", bool |-> "Bool",
     void |-> "Void", volatile |-> "Volatile", const |-> "Const", restrict |-> "Restrict"]

KeywordKind(value) ==
    IF Str(value) \in DOMAIN Keywords THEN Keywords[Str(value)] ELSE "Identifier"

\* Lexer::new
LexerNew(contents) ==
    [contents |-> contents, tokens |-> <<>>, current |-> 0, errors |-> <<>>, st |-> "ok"]

\* Lexer::current: NUL at or past the byte length, else the char of that index;
\* chars().nth(current) is None, and the unwrap aborts, when the index is below
\* the byte length but not below the number of chars
LexerCurrent(contents, cur) ==
    IF cur >= ByteLen(contents) THEN NUL
    ELSE IF cur < Len(contents) THEN contents[cur + 1]
    ELSE ABORT

RECURSIVE LexIdentLoop(_, _, _)
\* while current < len && current().is_alphanumeric() || current() == '_'
LexIdentLoop(contents, cur, value) ==
    LET c == LexerCurrent(contents, cur) IN
    IF c = ABORT THEN [cur |-> cur, value |-> value, st |-> "panic"]
    ELSE IF (cur < ByteLen(contents) /\ IsAlphanumeric(c)) \/ c = "_"
         THEN LexIdentLoop(contents, cur + 1, Append(value, c))
         ELSE [cur |-> cur, value |-> value, st |-> "ok"]

RECURSIVE LexNumberLoop(_, _, _)
\* while current < len && current().is_numeric()
LexNumberLoop(contents, cur, value) ==
    IF cur < ByteLen(contents)
    THEN LET c == LexerCurrent(contents, cur) IN
         IF c = ABORT THEN [cur |-> cur, value |-> value, st |-> "panic"]
         ELSE IF IsNumeric(c) THEN LexNumberLoop(contents, cur + 1, Append(value, c))
         ELSE [cur |-> cur, value |-> value, st |-> "ok"]
    ELSE [cur |-> cur, value |-> value, st |-> "ok"]

\* the text an escape stands for in the token's value
EscapeText(e) ==
    CASE e = "n" -> <<"\\", "n">>
      [] e = "t" -> <<"\\", "t">>
      [] e = "r" -> <<"\\", "r">>
      [] e = "0" -> <<"\\", "0">>
      [] e = "'" -> <<"'">>
      [] e = "\"" -> <<"\\", "\"">>
      [] e = "\\" -> <<"\\", "\\">>

ValidEscapes == {"n", "t", "r", "0", "'", "\"", "\\"}

RECURSIVE LexQuotedLoop(_, _, _, _, _)
\* the loop of the string and character arms, `quote` being the closing character
LexQuotedLoop(contents, quote, cur, value, errs) ==
    IF cur < ByteLen(contents)
    THEN LET val == LexerCurrent(contents, cur) IN
         IF val = ABORT THEN [cur |-> cur, value |-> value, errs |-> errs, st |-> "panic"]
         ELSE IF val = quote THEN [cur |-> cur, value |-> value, errs |-> errs, st |-> "ok"]
         ELSE IF val = "\\"
         THEN LET e == LexerCurrent(contents, cur + 1) IN
              IF e = ABORT
              THEN [cur |-> cur + 1, value |-> value, errs |-> errs, st |-> "panic"]
              ELSE IF e \in ValidEscapes
              THEN LexQuotedLoop(contents, quote, cur + 2, value \o EscapeText(e), errs)
              ELSE LexQuotedLoop(contents, quote, cur + 3, value,
                       Append(errs, SyntaxError("Invalid escape sequence", cur + 1, cur + 1)))
         ELSE LexQuotedLoop(contents, quote, cur + 1, Append(value, val), errs)
    ELSE [cur |-> cur, value |-> value, errs |-> errs, st |-> "ok"]

\* the '"' and '\'' arms
LexQuoted(contents, l, quote, kind) ==
    LET start == l.current
        r == LexQuotedLoop(contents, quote, start + 1, <<>>, l.errors)
    IN  IF r.st = "panic" THEN [l EXCEPT !.current = r.cur, !.errors = r.errs, !.st = "panic"]
        ELSE [l EXCEPT !.current = r.cur + 1, !.errors = r.errs,
                       !.tokens = Append(@, Token(kind, r.value, start, r.cur + 1))]

\* an arm that emits one token for one character
LexSingle(l, kind, c) ==
    [l EXCEPT !.current = @ + 1,
              !.tokens = Append(@, Token(kind, <<c>>, l.current, l.current + 1))]

\* an arm of the form c, or c followed by '=' (guarded by current < len)
LexWithEqual(contents, l, c, kind, kindEqual) ==
    LET start == l.current
        n == LexerCurrent(contents, start + 1) IN
    IF start + 1 < ByteLen(contents) /\ n = ABORT THEN [l EXCEPT !.current = start + 1, !.st = "panic"]
    ELSE IF start + 1 < ByteLen(contents) /\ n = "="
    THEN [l EXCEPT !.current = start + 2,
                   !.tokens = Append(@, Token(kindEqual, <<c, "=">>, start, start + 2))]
    ELSE [l EXCEPT !.current = start + 1,
                   !.tokens = Append(@, Token(kind, <<c>>, start, start + 1))]

RECURSIVE SkipComment(_, _)
\* while current < len && current() != '\n' { advance }
SkipComment(contents, cur) ==
    IF cur < ByteLen(contents)
    THEN LET c == LexerCurrent(contents, cur) IN
         IF c = ABORT THEN [cur |-> cur, st |-> "panic"]
         ELSE IF c # "\n" THEN SkipComment(contents, cur + 1)
         ELSE [cur |-> cur, st |-> "ok"]
    ELSE [cur |-> cur, st |-> "ok"]

SingleKind ==
    [c \in {":", ",", "@", "|", "&", "(", ")", "[", "]"} |->
        CASE c = ":" -> "Colon" [] c = "," -> "Comma" [] c = "@" -> "At"
          [] c = "|" -> "Pipe" [] c = "&" -> "Ampersand" [] c = "(" -> "OpenParen"
          [] c = ")" -> "CloseParen" [] c = "[" -> "OpenBracket" [] c = "]" -> "CloseBracket"]

EqualKinds ==
    [c \in {"!", "<", ">", "+", "-", "*", "%"} |->
        CASE c = "!" -> <<"Bang", "BangEqual">> [] c = "<" -> <<"Less", "LessEqual">>
          [] c = ">" -> <<"Greater", "GreaterEqual">> [] c = "+" -> <<"Plus", "PlusEqual">>
          [] c = "-" -> <<"Minus", "MinusEqual">> [] c = "*" -> <<"Star", "StarEqual">>
          [] c = "%" -> <<"Percent", "PercentEqual">>]

\* an iteration that emits a token and leaves the position where it is
LexWithoutAdvance(l) ==
    [l EXCEPT !.tokens = Append(@, Token("Newline", <<"\n">>, l.current, l.current))]

\* one iteration of the `while self.current < self.contents.len()` loop of Lexer::lex
LexIteration(l) ==
    LET contents == l.contents
        start == l.current
        c == LexerCurrent(contents, start)
    IN
    IF c = ABORT THEN [l EXCEPT !.st = "panic"]
    ELSE IF c \in {"\t", " ", "\r"} THEN [l EXCEPT !.current = @ + 1]
    ELSE IF c = "\n"
    THEN [l EXCEPT !.current = @ + 1,
                   !.tokens = Append(@, Token("Newline", <<"\n">>, start + 1, start + 1))]
    ELSE IF IsIdentStart(c)
    THEN LET r == LexIdentLoop(contents, start, <<>>) IN
         IF r.st = "panic" THEN [l EXCEPT !.current = r.cur, !.st = "panic"]
         ELSE [l EXCEPT !.current = r.cur,
                        !.tokens = Append(@, Token(KeywordKind(r.value), r.value, start, r.cur))]
    ELSE IF c = "\"" THEN LexQuoted(contents, l, "\"", "StringLit")
    ELSE IF c = "'" THEN LexQuoted(contents, l, "'", "CharLit")
    ELSE IF c \in Digits
    THEN LET r == LexNumberLoop(contents, start, <<>>) IN
         IF r.st = "panic" THEN [l EXCEPT !.current = r.cur, !.st = "panic"]
         ELSE [l EXCEPT !.current = r.cur,
                        !.tokens = Append(@, Token("NumberLit", r.value, start, r.cur))]
    ELSE IF c \in DOMAIN SingleKind THEN LexSingle(l, SingleKind[c], c)
    ELSE IF c = "."
    THEN LET n == LexerCurrent(contents, start + 1) IN
         IF n = ABORT THEN [l EXCEPT !.current = start + 1, !.st = "panic"]
         ELSE IF n = "."
         THEN [l EXCEPT !.current = start + 2,
                        !.tokens = Append(@, Token("Range", <<".", ".">>, start, start + 2))]
         ELSE [l EXCEPT !.current = start + 1,
                        !.tokens = Append(@, Token("Dot", <<".">>, start, start + 1))]
    ELSE IF c = "="
    THEN LET n == LexerCurrent(contents, start + 1) IN
         IF start + 1 < ByteLen(contents) /\ n = ABORT
         THEN [l EXCEPT !.current = start + 1, !.st = "panic"]
         ELSE IF start + 1 < ByteLen(contents) /\ n = ">"
         THEN [l EXCEPT !.current = start + 2,
                        !.tokens = Append(@, Token("FatArrow", <<"=", ">">>, start, start + 2))]
         ELSE IF start + 1 < ByteLen(contents) /\ n = "="
         THEN [l EXCEPT !.current = start + 2,
                        !.tokens = Append(@, Token("EqualEqual", <<"=", "=">>, start, start + 2))]
         ELSE [l EXCEPT !.current = start + 1,
                        !.tokens = Append(@, Token("Equal", <<"=">>, start, start + 1))]
    ELSE IF c \in DOMAIN EqualKinds
    THEN LexWithEqual(contents, l, c, EqualKinds[c][1], EqualKinds[c][2])
    ELSE IF c = "/"
    THEN LET n == LexerCurrent(contents, start + 1) IN
         IF n = ABORT THEN [l EXCEPT !.current = start + 1, !.st = "panic"]
         ELSE IF n = "/"
         THEN LET r == SkipComment(contents, start + 2) IN
              IF r.st = "panic" THEN [l EXCEPT !.current = r.cur, !.st = "panic"]
              ELSE [l EXCEPT !.current = r.cur + 1]
         ELSE IF start + 1 < ByteLen(contents) /\ n = "="
         THEN [l EXCEPT !.current = start + 2,
                        !.tokens = Append(@, Token("SlashEqual", <<"/", "=">>, start, start + 2))]
         ELSE [l EXCEPT !.current = start + 1,
                        !.tokens = Append(@, Token("Slash", <<"/">>, start, start + 1))]
    ELSE [l EXCEPT !.current = @ + 1,
                   !.errors = Append(@, SyntaxError("Unexpected character: " \o c,
                                                       start, start + 1))]

RECURSIVE Lex(_)
\* Lexer::lex run to its end (or to its abort) from the lexer state l
Lex(l) ==
    IF l.st = "ok" /\ l.current < ByteLen(l.contents) THEN Lex(LexIteration(l)) ELSE l

----------------------------------------------------------------------------
(* Parser: tokens, cursor, expect *)

\* Parser::new
ParserNew(tokens) ==
    [tokens |-> tokens, statements |-> <<>>, current |-> 0, errors |-> <<>>, st |-> "ok"]

\* The record the parse functions thread: the cursor, the parser's error list, how
\* the call ended, and the value the call returns.
PState(cur, errs, st, v) == [current |-> cur, errors |-> errs, st |-> st, v |-> v]
NoValue == [k |-> "None"]
With(p, v) == PState(p.current, p.errors, p.st, v)
At(p, cur) == PState(cur, p.errors, p.st, p.v)
Panic(p) == PState(p.current, p.errors, IF p.st = "ok" THEN "panic" ELSE p.st, NoValue)
Hang(p) == PState(p.current, p.errors, IF p.st = "ok" THEN "hang" ELSE p.st, NoValue)
AddError(p, e) == PState(p.current, Append(p.errors, e), p.st, p.v)

\* Parser::current: the token under the cursor, or an EndOfFile token placed at
\* the end of the last token
ParserCurrent(toks, cur) ==
    IF cur >= Len(toks)
    THEN [kind |-> "EndOfFile", value |-> <<>>,
          location |-> TokenLocation(toks[Len(toks)].location.end, toks[Len(toks)].location.end)]
    ELSE toks[cur + 1]

Kind(toks, p) == ParserCurrent(toks, p.current).kind
Loc(toks, p) == ParserCurrent(toks, p.current).location

\* an expect that steps back over the last token when the kind does not match
ExpectRewinding(toks, cur, kind) ==
    IF ParserCurrent(toks, cur).kind = kind
    THEN [current |-> cur + 1, token |-> ParserCurrent(toks, cur)]
    ELSE [current |-> IF cur > 0 THEN cur - 1 ELSE cur,
          token |-> [kind |-> "Error", value |-> <<"expected ", kind>>,
                     location |-> ParserCurrent(toks, cur).location]]

\* an expect that takes the token whatever its kind is
ExpectAny(toks, cur, kind) ==
    [current |-> IF cur < Len(toks) THEN cur + 1 ELSE cur, token |-> ParserCurrent(toks, cur)]

\* Parser::expect: [current, token]. The cursor moves, by one, only on a match.
Expect(toks, cur, kind) ==
    IF ParserCurrent(toks, cur).kind = "EndOfFile"
    THEN [current |-> cur,
          token |-> [kind |-> "Error", value |-> <<"unexpected end of file">>,
                     location |-> ParserCurrent(toks, cur).location]]
    ELSE IF ParserCurrent(toks, cur).kind = kind
    THEN [current |-> cur + 1, token |-> ParserCurrent(toks, cur)]
    ELSE [current |-> cur,
          token |-> [kind |-> "Error",
                     value |-> <<"expected ", kind, ", but got ", ParserCurrent(toks, cur).kind>>,
                     location |-> ParserCurrent(toks, cur).location]]

\* self.expect(kind); with the returned token dropped
Eat(toks, p, kind) == At(p, Expect(toks, p.current, kind).current)
\* self.expect(kind).value
EatValue(toks, p, kind) == Str(Expect(toks, p.current, kind).token.value)
\* if self.current().kind == kind { self.expect(kind); }
EatIf(toks, p, kind) == IF Kind(toks, p) = kind THEN Eat(toks, p, kind) ELSE p

----------------------------------------------------------------------------
(* Parser: number literals *)

I64Max == <<"9","2","2","3","3","7","2","0","3","6","8","5","4","7","7","5","8","0","7">>

DigitValue(d) == CHOOSE n \in 0..9 : ToString(n) = d

\* the digits without their leading zeros (one digit is kept)
StripZeros(ds) ==
    LET significant == {i \in 1..Len(ds) : ds[i] # "0" \/ i = Len(ds)}
        first == CHOOSE i \in significant : \A j \in significant : i <= j
    IN  SubSeq(ds, first, Len(ds))

\* a > b for two digit strings of equal length
DigitsGreater(a, b) ==
    \E i \in 1..Len(a) :
        /\ DigitValue(a[i]) > DigitValue(b[i])
        /\ \A j \in 1..(i - 1) : a[j] = b[j]

\* str::parse::<i64> of a string of decimal digits is Ok exactly when the number
\* is at most i64::MAX
ParsesAsI64(ds) ==
    LET n == StripZeros(ds) IN
    \/ Len(n) < Len(I64Max)
    \/ Len(n) = Len(I64Max) /\ ~DigitsGreater(n, I64Max)

\* the i64 a digit string parses to, written as i64::to_string writes it
I64Text(ds) == Str(StripZeros(ds))

----------------------------------------------------------------------------
(* Parser: types and expressions *)

\* The one element of a one-element set. A result r of a call e that the code
\* binds with "let r = e;" and then uses is written The({ use(r) : r \in {e} }).
The(S) == CHOOSE x \in S : TRUE

\* self.method(): the parse methods call parse_type, parse_expression and
\* parse_statement through this one operator
RECURSIVE Self(_, _, _)

RECURSIVE ParseType(_, _), ParseExpression(_, _), ParseUnary(_, _),
          TypeListLoop(_, _, _, _), ExprListLoop(_, _, _, _), CallArgsLoop(_, _, _),
          ComparisonLoop(_, _), AdditiveLoop(_, _), MultiplicativeLoop(_, _),
          IndexLoop(_, _), MemberLoop(_, _), CastLoop(_, _), RangeLoop(_, _),
          CallLoop(_, _)

\* while self.current().kind != close { push(parse_type()); if Comma { expect(Comma) } }
TypeListLoop(toks, p, close, acc) ==
    IF p.st # "ok" THEN With(p, acc)
    ELSE IF Kind(toks, p) = close THEN With(p, acc)
    ELSE The({ IF EatIf(toks, t, "Comma").st = "ok" /\ EatIf(toks, t, "Comma").current = p.current
               THEN Hang(EatIf(toks, t, "Comma"))
               ELSE TypeListLoop(toks, EatIf(toks, t, "Comma"), close, Append(acc, t.v))
             : t \in {Self("parse_type", toks, p)} })

\* while self.current().kind != close { push(parse_expression()); if Comma { expect(Comma) } }
ExprListLoop(toks, p, close, acc) ==
    IF p.st # "ok" THEN With(p, acc)
    ELSE IF Kind(toks, p) = close THEN With(p, acc)
    ELSE The({ IF EatIf(toks, e, "Comma").st = "ok" /\ EatIf(toks, e, "Comma").current = p.current
               THEN Hang(EatIf(toks, e, "Comma"))
               ELSE ExprListLoop(toks, EatIf(toks, e, "Comma"), close, Append(acc, e.v))
             : e \in {Self("parse_expression", toks, p)} })

\* the primitive types and the qualifiers of parse_type, by token kind
PrimitiveTypes ==
    [Int |-> "Int", Usize |-> "Usize", String |-> "String", CString |-> "CString",
     Char |-> "Char", Bool |-> "Bool", Void |-> "Void"]
TypeQualifiers == [Volatile |-> "Volatile", Const |-> "Const", Restrict |-> "Restrict"]

\* Parser::parse_type
ParseType(toks, p) ==
    IF p.st # "ok" THEN With(p, NoValue) ELSE
    The({
        IF base.st # "ok" THEN With(base, NoValue)
        ELSE IF Kind(toks, base) = "Star"
        THEN With(Eat(toks, base, "Star"),
                  [k |-> "Pointer", t |-> base.v, location |-> Loc(toks, base)])
        ELSE IF Kind(toks, base) = "OpenBracket"
        THEN IF Kind(toks, Eat(toks, base, "OpenBracket")) = "CloseBracket"
             THEN With(Eat(toks, Eat(toks, base, "OpenBracket"), "CloseBracket"),
                       [k |-> "DynamicArray", t |-> base.v, location |-> Loc(toks, base)])
             ELSE The({ With(Eat(toks, size, "CloseBracket"),
                             [k |-> "Array", t |-> base.v, size |-> size.v,
                              location |-> Loc(toks, base)])
                      : size \in {Self("parse_expression", toks, Eat(toks, base, "OpenBracket"))} })
        ELSE base
      : base \in {
        IF Kind(toks, p) \in DOMAIN PrimitiveTypes
        THEN With(Eat(toks, p, Kind(toks, p)),
                  [k |-> PrimitiveTypes[Kind(toks, p)], location |-> Loc(toks, p)])
        ELSE IF Kind(toks, p) = "Identifier"
        THEN With(Eat(toks, p, "Identifier"),
                  [k |-> "Unknown", name |-> EatValue(toks, p, "Identifier"),
                   location |-> Loc(toks, p)])
        ELSE IF Kind(toks, p) = "Func"
        THEN The({
                 The({ With(ret, [k |-> "Function", args |-> args.v, ret |-> ret.v,
                                  location |-> Loc(toks, Eat(toks, args, "CloseParen"))])
                     : ret \in {IF Kind(toks, Eat(toks, args, "CloseParen")) = "Colon"
                                THEN Self("parse_type", toks, Eat(toks, Eat(toks, args, "CloseParen"), "Colon"))
                                ELSE With(Eat(toks, args, "CloseParen"),
                                          [k |-> "Void",
                                           location |-> Loc(toks, Eat(toks, args, "CloseParen"))])} })
               : args \in {TypeListLoop(toks, Eat(toks, Eat(toks, p, "Func"), "OpenParen"),
                                        "CloseParen", <<>>)} })
        ELSE IF Kind(toks, p) \in DOMAIN TypeQualifiers
        THEN The({ With(t, [k |-> TypeQualifiers[Kind(toks, p)], t |-> t.v,
                            location |-> Loc(toks, p)])
                 : t \in {Self("parse_type", toks, Eat(toks, p, Kind(toks, p)))} })
        ELSE With(p, [k |-> "Error",
                      error |-> SyntaxError("expected Type, but got " \o Kind(toks, p),
                                           Loc(toks, p).start, Loc(toks, p).end),
                      location |-> Loc(toks, p)])
        } })

\* Expression::location
ExprLocation(e) ==
    IF e.k \in {"Null", "Empty", "None"} THEN TokenLocation(0, 0)
    ELSE IF e.k = "Error" THEN e.error.location
    ELSE e.location

\* Parser::parse_primary
ParsePrimary(toks, p) ==
    IF p.st # "ok" THEN With(p, NoValue) ELSE
    LET location == Loc(toks, p)
        kind == Kind(toks, p)
        tok == ParserCurrent(toks, p.current)
        q == Eat(toks, p, kind)
    IN
    IF kind = "NumberLit"
    THEN IF ParsesAsI64(tok.value)
         THEN With(q, [k |-> "Number", value |-> I64Text(tok.value), location |-> location])
         ELSE Panic(q)
    ELSE IF kind = "StringLit"
    THEN With(q, [k |-> "String", value |-> Str(tok.value), location |-> location])
    ELSE IF kind = "CharLit"
    THEN With(q, [k |-> "Char", value |-> Str(tok.value), location |-> location])
    ELSE IF kind = "True"
    THEN With(q, [k |-> "Boolean", value |-> TRUE, location |-> location])
    ELSE IF kind = "False"
    THEN With(q, [k |-> "Boolean", value |-> FALSE, location |-> location])
    ELSE IF kind = "Identifier"
    THEN With(q, [k |-> "Identifier", name |-> Str(tok.value), location |-> location])
    ELSE IF kind = "SizeOf"
    THEN The({ With(t, [k |-> "SizeOf", t |-> t.v, location |-> location])
             : t \in {Self("parse_type", toks, q)} })
    ELSE IF kind = "OpenBracket"
    THEN The({ With(Eat(toks, values, "CloseBracket"),
                    [k |-> "Array", elements |-> values.v, location |-> location])
             : values \in {ExprListLoop(toks, q, "CloseBracket", <<>>)} })
    ELSE IF kind = "New"
    THEN The({ With(Eat(toks, args, "CloseParen"),
                    [k |-> "New", name |-> EatValue(toks, q, "Identifier"), args |-> args.v,
                     location |-> location])
             : args \in {ExprListLoop(toks, Eat(toks, Eat(toks, q, "Identifier"), "OpenParen"),
                                      "CloseParen", <<>>)} })
    ELSE IF kind = "Null"
    THEN With(q, [k |-> "Null"])
    ELSE With(p, [k |-> "Error",
                  error |-> SyntaxError("expected Expression, but got " \o kind,
                                       location.start, location.end)])

\* whether tokens[i] can be read: Vec indexing aborts at or past the length
InTokens(toks, i) == i < Len(toks)

\* the argument loop of an ordinary call suffix, with its NamedArgument look-ahead
\* self.tokens[self.current + 1]
CallArgsLoop(toks, p, acc) ==
    IF p.st # "ok" THEN With(p, acc)
    ELSE IF Kind(toks, p) = "CloseParen" THEN With(p, acc)
    ELSE IF Kind(toks, p) = "Identifier" /\ ~InTokens(toks, p.current + 1) THEN Panic(p)
    ELSE IF Kind(toks, p) = "Identifier" /\ toks[p.current + 2].kind = "Colon"
    THEN The({ CallArgsLoop(toks, EatIf(toks, value, "Comma"),
                            Append(acc, [k |-> "NamedArgument",
                                         name |-> EatValue(toks, p, "Identifier"),
                                         value |-> value.v, location |-> Loc(toks, p)]))
             : value \in {Self("parse_expression", toks, Eat(toks, Eat(toks, p, "Identifier"), "Colon"))} })
    ELSE The({ IF EatIf(toks, e, "Comma").st = "ok" /\ EatIf(toks, e, "Comma").current = p.current
               THEN Hang(EatIf(toks, e, "Comma"))
               ELSE CallArgsLoop(toks, EatIf(toks, e, "Comma"), Append(acc, e.v))
             : e \in {Self("parse_expression", toks, p)} })

\* let name = match expression { Identifier(name, _) => name, _ => { errors.push(..); "" } }
CalleeName(toks, p, expression) ==
    IF expression.k = "Identifier" THEN With(p, expression.name)
    ELSE With(AddError(p, SyntaxError("Expected identifier", Loc(toks, p).start, Loc(toks, p).end)), "")

\* the node a call suffix leaves: the callee is the expression parsed so far
CallNode(toks, b, callee, node) ==
    With(CalleeName(toks, b, callee), [node EXCEPT !.name = CalleeName(toks, b, callee).v])

\* the generic-call branch of the loop of parse_call: [ types ] ( args )
GenericSuffix(toks, p) ==
    The({ The({ CallNode(toks, Eat(toks, args, "CloseParen"), p.v,
                         [k |-> "GenericCall", name |-> "", types |-> types.v,
                          args |-> args.v, location |-> Loc(toks, p)])
              : args \in {ExprListLoop(toks, Eat(toks, Eat(toks, types, "CloseBracket"), "OpenParen"),
                                       "CloseParen", <<>>)} })
        : types \in {TypeListLoop(toks, Eat(toks, p, "OpenBracket"), "CloseBracket", <<>>)} })

\* the rest of the loop body of parse_call: ( args )
CallSuffix(toks, p) ==
    The({ CallNode(toks, Eat(toks, args, "CloseParen"), p.v,
                   [k |-> "Call", name |-> "", args |-> args.v, location |-> Loc(toks, p)])
        : args \in {CallArgsLoop(toks, Eat(toks, p, "OpenParen"), <<>>)} })

\* one iteration of the loop of parse_call: the generic branch, when its look-ahead
\* self.tokens[self.current + 2] says so, and then, in every case, the call suffix
CallIteration(toks, p) ==
    IF Kind(toks, p) = "OpenBracket" /\ ~InTokens(toks, p.current + 2) THEN Panic(p)
    ELSE IF Kind(toks, p) = "OpenBracket"
            /\ toks[p.current + 3].kind \in {"CloseBracket", "Comma"}
    THEN CallSuffix(toks, GenericSuffix(toks, p))
    ELSE CallSuffix(toks, p)

\* while self.current().kind == OpenParen || self.current().kind == OpenBracket
CallLoop(toks, p) ==
    IF p.st # "ok" THEN p
    ELSE IF Kind(toks, p) \in {"OpenParen", "OpenBracket"}
    THEN The({ IF q.st = "ok" /\ q.current = p.current THEN Hang(q) ELSE CallLoop(toks, q)
             : q \in {CallIteration(toks, p)} })
    ELSE p

\* Parser::parse_call
ParseCall(toks, p) == CallLoop(toks, ParsePrimary(toks, p))

RangeLoop(toks, p) ==
    IF p.st # "ok" THEN p
    ELSE IF Kind(toks, p) = "Range"
    THEN The({ RangeLoop(toks, With(right, [k |-> "Range", from |-> p.v, to |-> right.v,
                                            location |-> Loc(toks, p)]))
             : right \in {Self("parse_expression", toks, Eat(toks, p, "Range"))} })
    ELSE p

\* Parser::parse_range
ParseRange(toks, p) == RangeLoop(toks, ParseCall(toks, p))

CastLoop(toks, p) ==
    IF p.st # "ok" THEN p
    ELSE IF Kind(toks, p) = "As"
    THEN The({ CastLoop(toks, With(t, [k |-> "Cast", expression |-> p.v, t |-> t.v,
                                       location |-> Loc(toks, p)]))
             : t \in {Self("parse_type", toks, Eat(toks, p, "As"))} })
    ELSE p

\* Parser::parse_cast
ParseCast(toks, p) == CastLoop(toks, ParseRange(toks, p))

MemberLoop(toks, p) ==
    IF p.st # "ok" THEN p
    ELSE IF Kind(toks, p) = "Dot"
    THEN The({ MemberLoop(toks, With(member, [k |-> "Member", expression |-> p.v,
                                              member |-> member.v, location |-> Loc(toks, p)]))
             : member \in {Self("parse_expression", toks, Eat(toks, p, "Dot"))} })
    ELSE p

\* Parser::parse_member
ParseMember(toks, p) == MemberLoop(toks, ParseCast(toks, p))

IndexLoop(toks, p) ==
    IF p.st # "ok" THEN p
    ELSE IF Kind(toks, p) = "OpenBracket"
    THEN The({ IndexLoop(toks, With(Eat(toks, index, "CloseBracket"),
                                    [k |-> "Index", expression |-> p.v, index |-> index.v,
                                     location |-> Loc(toks, p)]))
             : index \in {Self("parse_expression", toks, Eat(toks, p, "OpenBracket"))} })
    ELSE p

\* Parser::parse_index
(* parse_index's operand is parse_member's result, which is parse_cast's, and
   so on down to parse_primary: each result is bound before the loop above it
   runs, in the order the calls return *)
ParseIndex(toks, p) ==
    The({ The({ The({ The({ The({ IndexLoop(toks, member)
                              : member \in {MemberLoop(toks, cast)} })
                        : cast \in {CastLoop(toks, range)} })
                  : range \in {RangeLoop(toks, call)} })
            : call \in {CallLoop(toks, primary)} })
        : primary \in {ParsePrimary(toks, p)} })

\* Parser::parse_unary
ParseUnary(toks, p) ==
    IF p.st # "ok" THEN With(p, NoValue)
    ELSE IF Kind(toks, p) \in {"Minus", "Bang", "Ampersand", "Star"}
    THEN The({ With(e, IF Kind(toks, p) \in {"Minus", "Bang"}
                       THEN [k |-> "Unary", op |-> Kind(toks, p), expression |-> e.v,
                             location |-> Loc(toks, p)]
                       ELSE [k |-> IF Kind(toks, p) = "Ampersand" THEN "AddressOf"
                                   ELSE "Dereference",
                             expression |-> e.v, location |-> Loc(toks, p)])
             : e \in {ParseUnary(toks, Eat(toks, p, Kind(toks, p)))} })
    ELSE ParseIndex(toks, p)

\* Parser::parse_grouping
ParseGrouping(toks, p) ==
    IF p.st # "ok" THEN With(p, NoValue) ELSE
    IF Kind(toks, p) = "OpenParen"
    THEN The({ With(Eat(toks, e, "CloseParen"),
                    [k |-> "Grouping", expression |-> e.v, location |-> Loc(toks, p)])
             : e \in {Self("parse_expression", toks, Eat(toks, p, "OpenParen"))} })
    ELSE ParseUnary(toks, p)

\* the node of a binary operator: the operator is the token under the cursor of p
BinaryNode(toks, p, right) ==
    With(right, [k |-> "Binary", op |-> Kind(toks, p), left |-> p.v, right |-> right.v,
                 location |-> Loc(toks, p)])

\* a parser without the level of * / %: the operand is returned as it is
NoMultiplicative(toks, p) == p

\* the loop of Parser::parse_multiplicative
MultiplicativeLoop(toks, p) ==
    IF p.st # "ok" THEN p
    ELSE IF Kind(toks, p) \in {"Star", "Slash", "Percent"}
    THEN MultiplicativeLoop(toks,
             BinaryNode(toks, p, ParseUnary(toks, Eat(toks, p, Kind(toks, p)))))
    ELSE p

\* Parser::parse_multiplicative
ParseMultiplicative(toks, p) ==
    The({ MultiplicativeLoop(toks, grouping) : grouping \in {ParseGrouping(toks, p)} })

AdditiveLoop(toks, p) ==
    IF p.st # "ok" THEN p
    ELSE IF Kind(toks, p) \in {"Plus", "Minus"}
    THEN AdditiveLoop(toks,
             BinaryNode(toks, p, ParseMultiplicative(toks, Eat(toks, p, Kind(toks, p)))))
    ELSE p

\* Parser::parse_additive
ParseAdditive(toks, p) ==
    The({ The({ AdditiveLoop(toks, multiplicative)
              : multiplicative \in {MultiplicativeLoop(toks, grouping)} })
        : grouping \in {ParseGrouping(toks, p)} })

ComparisonLoop(toks, p) ==
    IF p.st # "ok" THEN p
    ELSE IF Kind(toks, p) \in {"EqualEqual", "BangEqual", "Less", "LessEqual", "Greater",
                               "GreaterEqual"}
    THEN ComparisonLoop(toks,
             BinaryNode(toks, p, ParseAdditive(toks, Eat(toks, p, Kind(toks, p)))))
    ELSE p

\* Parser::parse_comparison
ParseComparison(toks, p) ==
    The({ The({ The({ ComparisonLoop(toks, additive)
                    : additive \in {AdditiveLoop(toks, multiplicative)} })
              : multiplicative \in {MultiplicativeLoop(toks, grouping)} })
        : grouping \in {ParseGrouping(toks, p)} })

\* Parser::parse_assignment
ParseAssignment(toks, p) ==
    The({ IF e.st = "ok" /\ Kind(toks, e) = "Equal"
          THEN The({ With(right, [k |-> "Assignment", left |-> e.v, right |-> right.v,
                                  location |-> Loc(toks, e)])
                   : right \in {Self("parse_expression", toks, Eat(toks, e, "Equal"))} })
          ELSE e
        : e \in {ParseComparison(toks, p)} })

\* Parser::parse_ternary
ParseTernary(toks, p) ==
    The({ IF e.st = "ok" /\ Kind(toks, e) = "If"
          THEN The({ The({ With(else_expression,
                                [k |-> "Ternary", condition |-> condition.v, left |-> e.v,
                                 right |-> else_expression.v, location |-> Loc(toks, e)])
                         : else_expression \in
                               {Self("parse_expression", toks, Eat(toks, condition, "Else"))} })
                   : condition \in {Self("parse_expression", toks, Eat(toks, e, "If"))} })
          ELSE e
        : e \in {ParseAssignment(toks, p)} })

\* Parser::parse_expression
ParseExpression(toks, p) ==
    IF p.st # "ok" THEN With(p, NoValue) ELSE ParseTernary(toks, p)

----------------------------------------------------------------------------
(* Parser: statements *)

RECURSIVE ParseStatement(_, _), ParseIf(_, _), BlockLoop(_, _, _, _),
          AnnotationFieldsLoop(_, _, _), AnnotatedLoop(_, _, _), StructFieldsLoop(_, _, _),
          EnumVariantsLoop(_, _, _), TypeAliasLoop(_, _, _), TypeParametersLoop(_, _, _),
          FunctionArgsLoop(_, _, _)

\* Statement::location
StmtLocation(s) == s.location

\* the body loop of func, while and if:
\* while current().kind is not a stop { if Newline { expect(Newline); continue }
\*                                      push(parse_statement()) }
BlockLoop(toks, p, stops, acc) ==
    IF p.st # "ok" THEN With(p, acc)
    ELSE IF Kind(toks, p) \in stops THEN With(p, acc)
    ELSE IF Kind(toks, p) = "Newline" THEN BlockLoop(toks, Eat(toks, p, "Newline"), stops, acc)
    ELSE The({ IF s.st = "ok" /\ s.current = p.current THEN Hang(s)
               ELSE BlockLoop(toks, s, stops, Append(acc, s.v))
             : s \in {Self("parse_statement", toks, p)} })

\* the field loops of annotation and struct, and the parameter loop of func:
\* one "name : type" and then the separator, which the annotation and the struct
\* expect and the parameter list takes when it is there
NamedTypeIteration(toks, p, separator, optional) ==
    The({ With(IF optional THEN EatIf(toks, t, separator) ELSE Eat(toks, t, separator),
               <<EatValue(toks, p, "Identifier"), t.v>>)
        : t \in {Self("parse_type", toks, Eat(toks, Eat(toks, p, "Identifier"), "Colon"))} })

AnnotationFieldsLoop(toks, p, acc) ==
    IF p.st # "ok" THEN With(p, acc)
    ELSE IF Kind(toks, p) = "End" THEN With(p, acc)
    ELSE The({ IF q.st = "ok" /\ q.current = p.current THEN Hang(q)
               ELSE AnnotationFieldsLoop(toks, q, Append(acc, q.v))
             : q \in {NamedTypeIteration(toks, p, "Newline", FALSE)} })

\* Parser::parse_annotation
ParseAnnotation(toks, p) ==
    LET a == Eat(toks, p, "Annotation")
        name_location == Loc(toks, a)
        name == EatValue(toks, a, "Identifier")
        b == Eat(toks, a, "Identifier")
        c == At(b, b.current + 1)
    IN  IF Kind(toks, b) = "End"
        THEN With(c, [k |-> "Annotation", name |-> name, fields |-> <<>>,
                      location |-> Loc(toks, c)])
        ELSE The({ With(Eat(toks, fields, "End"),
                        [k |-> "Annotation", name |-> name, fields |-> fields.v,
                         location |-> name_location])
                 : fields \in {AnnotationFieldsLoop(toks, Eat(toks, b, "Newline"), <<>>)} })

\* the loop of parse_annotated: one annotation use per iteration
AnnotatedLoop(toks, p, acc) ==
    IF p.st # "ok" THEN With(p, acc)
    ELSE IF Kind(toks, p) # "At" THEN With(p, acc)
    ELSE LET a == Eat(toks, p, "At")
             name_location == Loc(toks, a)
             name == EatValue(toks, a, "Identifier")
             b == Eat(toks, a, "Identifier")
         IN  The({ AnnotatedLoop(toks, Eat(toks, arguments, "Newline"),
                       Append(acc, [name |-> name, arguments |-> arguments.v,
                                    location |-> name_location]))
                 : arguments \in {
                     IF Kind(toks, b) = "OpenParen"
                     THEN The({ With(Eat(toks, args, "CloseParen"), args.v)
                              : args \in {ExprListLoop(toks, Eat(toks, b, "OpenParen"),
                                                       "CloseParen", <<>>)} })
                     ELSE With(b, <<>>)} })

\* Parser::parse_annotated
ParseAnnotated(toks, p) ==
    The({ The({ IF statement.st # "ok" THEN With(statement, NoValue)
                ELSE With(statement, [k |-> "Annotated", statement |-> statement.v,
                                      annotations |-> annotations.v,
                                      location |-> StmtLocation(statement.v)])
              : statement \in {Self("parse_statement", toks, annotations)} })
        : annotations \in {AnnotatedLoop(toks, p, <<>>)} })

\* Parser::parse_external and Parser::parse_inline
ParsePrefixed(toks, p, kind) ==
    The({ With(statement, [k |-> kind, statement |-> statement.v, location |-> Loc(toks, p)])
        : statement \in {Self("parse_statement", toks, Eat(toks, p, kind))} })

StructFieldsLoop(toks, p, acc) ==
    IF p.st # "ok" THEN With(p, acc)
    ELSE IF Kind(toks, p) = "End" THEN With(p, acc)
    ELSE IF Kind(toks, p) = "Newline" THEN StructFieldsLoop(toks, At(p, p.current + 1), acc)
    ELSE The({ IF q.st = "ok" /\ q.current = p.current THEN Hang(q)
               ELSE StructFieldsLoop(toks, q, Append(acc, q.v))
             : q \in {NamedTypeIteration(toks, p, "Newline", FALSE)} })

\* Parser::parse_struct
ParseStruct(toks, p) ==
    LET a == Eat(toks, p, "Struct")
        location == Loc(toks, a)
        name == EatValue(toks, a, "Identifier")
        b == Eat(toks, a, "Identifier")
    IN  IF Kind(toks, b) = "End"
        THEN With(At(b, b.current + 1),
                  [k |-> "Struct", name |-> name, fields |-> <<>>, location |-> location])
        ELSE The({ With(Eat(toks, fields, "End"),
                        [k |-> "Struct", name |-> name, fields |-> fields.v,
                         location |-> location])
                 : fields \in {StructFieldsLoop(toks, Eat(toks, b, "Newline"), <<>>)} })

EnumVariantsLoop(toks, p, acc) ==
    IF p.st # "ok" THEN With(p, acc)
    ELSE IF Kind(toks, p) = "End" THEN With(p, acc)
    ELSE IF Kind(toks, p) = "Newline" THEN EnumVariantsLoop(toks, At(p, p.current + 1), acc)
    ELSE The({ IF Eat(toks, variant_value, "Newline").st = "ok"
                  /\ Eat(toks, variant_value, "Newline").current = p.current
               THEN Hang(Eat(toks, variant_value, "Newline"))
               ELSE EnumVariantsLoop(toks, Eat(toks, variant_value, "Newline"),
                        Append(acc, <<EatValue(toks, p, "Identifier"), variant_value.v,
                                      Loc(toks, p)>>))
             : variant_value \in
                   {Self("parse_expression", toks, Eat(toks, Eat(toks, p, "Identifier"), "Equal"))} })

\* Parser::parse_enum
ParseEnum(toks, p) ==
    LET a == Eat(toks, p, "Enum")
        location == Loc(toks, a)
        name == EatValue(toks, a, "Identifier")
    IN  The({ The({ With(Eat(toks, variants, "End"),
                         [k |-> "Enum", name |-> name, enum_type |-> enum_type.v,
                          variants |-> variants.v, location |-> location])
                  : variants \in {EnumVariantsLoop(toks, Eat(toks, enum_type, "Newline"), <<>>)} })
            : enum_type \in {Self("parse_type", toks, Eat(toks, Eat(toks, a, "Identifier"), "Colon"))} })

\* while self.current().kind != Newline { push(parse_type()); if Pipe { expect(Pipe) } }
TypeAliasLoop(toks, p, acc) ==
    IF p.st # "ok" THEN With(p, acc)
    ELSE IF Kind(toks, p) = "Newline" THEN With(p, acc)
    ELSE The({ IF EatIf(toks, t, "Pipe").st = "ok" /\ EatIf(toks, t, "Pipe").current = p.current
               THEN Hang(EatIf(toks, t, "Pipe"))
               ELSE TypeAliasLoop(toks, EatIf(toks, t, "Pipe"), Append(acc, t.v))
             : t \in {Self("parse_type", toks, p)} })

\* Parser::parse_type_alias
ParseTypeAlias(toks, p) ==
    LET a == Eat(toks, p, "Type")
        location == Loc(toks, a)
        name == EatValue(toks, a, "Identifier")
    IN  The({ With(types, [k |-> "TypeAlias", name |-> name, types |-> types.v,
                           location |-> location])
            : types \in {TypeAliasLoop(toks, Eat(toks, Eat(toks, a, "Identifier"), "Equal"),
                                       <<>>)} })

\* the type-parameter loop of parse_function: NAME, or NAME : type
TypeParametersLoop(toks, p, acc) ==
    IF p.st # "ok" THEN With(p, acc)
    ELSE IF Kind(toks, p) = "CloseBracket" THEN With(p, acc)
    ELSE The({ IF EatIf(toks, bound, "Comma").st = "ok"
                  /\ EatIf(toks, bound, "Comma").current = p.current
               THEN Hang(EatIf(toks, bound, "Comma"))
               ELSE TypeParametersLoop(toks, EatIf(toks, bound, "Comma"),
                        Append(acc, <<EatValue(toks, p, "Identifier"), bound.v>>))
             : bound \in {
                 IF Kind(toks, Eat(toks, p, "Identifier")) = "Colon"
                 THEN The({ With(t, <<t.v>>)
                          : t \in {Self("parse_type", toks, Eat(toks, Eat(toks, p, "Identifier"),
                                                       "Colon"))} })
                 ELSE With(Eat(toks, p, "Identifier"), <<>>)} })

\* the parameter loop of parse_function: name : type
FunctionArgsLoop(toks, p, acc) ==
    IF p.st # "ok" THEN With(p, acc)
    ELSE IF Kind(toks, p) = "CloseParen" THEN With(p, acc)
    ELSE The({ IF q.st = "ok" /\ q.current = p.current THEN Hang(q)
               ELSE FunctionArgsLoop(toks, q, Append(acc, q.v))
             : q \in {NamedTypeIteration(toks, p, "Comma", TRUE)} })

\* the body of a function: "=> expression" becomes one Return, and otherwise the
\* statements up to End
FunctionBody(toks, p) ==
    IF Kind(toks, p) = "FatArrow"
    THEN The({ IF expression.st # "ok" THEN With(expression, <<>>)
               ELSE With(Eat(toks, expression, "Newline"),
                         <<[k |-> "Return", value |-> expression.v,
                            location |-> ExprLocation(expression.v)]>>)
             : expression \in {Self("parse_expression", toks, Eat(toks, p, "FatArrow"))} })
    ELSE The({ With(Eat(toks, stmts, "End"), stmts.v)
             : stmts \in {BlockLoop(toks, p, {"End"}, <<>>)} })

\* the statement parse_function returns: a Function or a StructFunction, inside a
\* Generic when there are type parameters
FunctionNode(location, struct_name, name, type_parameters, args, return_type, body) ==
    LET function == IF struct_name # ""
                    THEN [k |-> "StructFunction", struct_name |-> struct_name, name |-> name,
                          args |-> args, return_type |-> return_type, body |-> body,
                          location |-> location]
                    ELSE [k |-> "Function", name |-> name, args |-> args,
                          return_type |-> return_type, body |-> body,
                          location |-> location]
    IN  IF Len(type_parameters) > 0
        THEN [k |-> "Generic", statement |-> function,
              type_parameters |-> type_parameters, location |-> location]
        ELSE function

\* Parser::parse_function
ParseFunction(toks, p) ==
    LET a == Eat(toks, p, "Func")
        location == Loc(toks, a)
        first == EatValue(toks, a, "Identifier")
        b == Eat(toks, a, "Identifier")
        dotted == Kind(toks, b) = "Dot"
        c == IF dotted THEN Eat(toks, Eat(toks, b, "Dot"), "Identifier") ELSE b
        name == IF dotted THEN EatValue(toks, Eat(toks, b, "Dot"), "Identifier") ELSE first
        struct_name == IF dotted THEN first ELSE ""
    IN
    The({ The({ The({ The({
        IF body.st # "ok" THEN With(body, NoValue)
        ELSE With(body, FunctionNode(location, struct_name, name, type_parameters.v,
                                     args.v, return_type.v, body.v))
      : body \in {FunctionBody(toks, return_type)} })
      : return_type \in {
          IF Kind(toks, Eat(toks, args, "CloseParen")) = "Colon"
          THEN Self("parse_type", toks, Eat(toks, Eat(toks, args, "CloseParen"), "Colon"))
          ELSE With(Eat(toks, args, "CloseParen"),
                    [k |-> "Void", location |-> Loc(toks, Eat(toks, args, "CloseParen"))])} })
      : args \in {FunctionArgsLoop(toks, Eat(toks, type_parameters, "OpenParen"), <<>>)} })
      : type_parameters \in {
          IF Kind(toks, c) = "OpenBracket"
          THEN The({ With(Eat(toks, tp, "CloseBracket"), tp.v)
                   : tp \in {TypeParametersLoop(toks, Eat(toks, c, "OpenBracket"), <<>>)} })
          ELSE With(c, <<>>)} })

\* Parser::parse_variable
ParseVariable(toks, p) ==
    LET a == Eat(toks, p, "Var")
        location == Loc(toks, a)
        name == EatValue(toks, a, "Identifier")
        b == Eat(toks, a, "Identifier")
    IN
    The({ The({
        With(Eat(toks, value, "Newline"),
             [k |-> "Variable", name |-> name, t |-> t.v, value |-> value.v,
              location |-> location])
      : value \in {IF t.st = "ok" /\ Kind(toks, t) = "Equal"
                   THEN Self("parse_expression", toks, Eat(toks, t, "Equal"))
                   ELSE With(t, [k |-> "Empty"])} })
      : t \in {IF Kind(toks, b) = "Colon"
               THEN Self("parse_type", toks, Eat(toks, b, "Colon"))
               ELSE With(b, [k |-> "Unknown", name |-> "", location |-> Loc(toks, b)])} })

\* Parser::parse_constant
ParseConstant(toks, p) ==
    LET a == Eat(toks, p, "Const")
        location == Loc(toks, a)
        name == EatValue(toks, a, "Identifier")
    IN
    The({ The({
        With(Eat(toks, value, "Newline"),
             [k |-> "Constant", name |-> name, t |-> t.v, value |-> value.v,
              location |-> location])
      : value \in {Self("parse_expression", toks, Eat(toks, t, "Equal"))} })
      : t \in {Self("parse_type", toks, Eat(toks, Eat(toks, a, "Identifier"), "Colon"))} })

\* Parser::parse_return
ParseReturn(toks, p) ==
    The({ IF value.st # "ok" THEN With(value, NoValue)
          ELSE With(Eat(toks, value, "Newline"),
                    [k |-> "Return", value |-> value.v, location |-> ExprLocation(value.v)])
        : value \in {Self("parse_expression", toks, Eat(toks, p, "Return"))} })

\* Parser::parse_import
ParseImport(toks, p) ==
    LET location == Loc(toks, p)
        a == Eat(toks, p, "Import")
        path == Expect(toks, a.current, "StringLit").token.value
    IN  With(Eat(toks, Eat(toks, a, "StringLit"), "Newline"),
             [k |-> "Import", path |-> path, location |-> location])

\* Parser::parse_while
ParseWhile(toks, p) ==
    The({ The({
        With(Eat(toks, body, "End"),
             [k |-> "While", condition |-> condition.v, body |-> body.v,
              location |-> Loc(toks, p)])
      : body \in {BlockLoop(toks, Eat(toks, condition, "Newline"), {"End"}, <<>>)} })
      : condition \in {Self("parse_expression", toks, Eat(toks, p, "While"))} })

\* the statement parse_if returns
\* an If that keeps its condition and body and drops its else-body
IfWithoutElse(condition, body, else_body, location) ==
    [k |-> "If", condition |-> condition, body |-> body, else_body |-> <<>>,
     location |-> location]

IfNode(condition, body, else_body, location) ==
    [k |-> "If", condition |-> condition, body |-> body, else_body |-> else_body,
     location |-> location]

\* Parser::parse_if
ParseIf(toks, p) ==
    IF p.st # "ok" THEN With(p, NoValue) ELSE
    The({ The({
        IF body.st # "ok" THEN With(body, NoValue)
        ELSE IF Kind(toks, body) # "Else"
        THEN With(Eat(toks, body, "End"), IfNode(condition.v, body.v, <<>>, Loc(toks, p)))
        ELSE IF Kind(toks, Eat(toks, body, "Else")) = "If"
        THEN The({ IF statement.st # "ok" THEN With(statement, NoValue)
                   ELSE With(statement, IfNode(condition.v, body.v, <<statement.v>>,
                                               StmtLocation(statement.v)))
                 : statement \in {ParseIf(toks, Eat(toks, body, "Else"))} })
        ELSE The({ With(Eat(toks, else_body, "End"),
                        IfNode(condition.v, body.v, else_body.v, Loc(toks, p)))
                 : else_body \in {BlockLoop(toks, Eat(toks, Eat(toks, body, "Else"), "Newline"),
                                            {"End"}, <<>>)} })
      : body \in {BlockLoop(toks, Eat(toks, condition, "Newline"), {"End", "Else"}, <<>>)} })
      : condition \in {Self("parse_expression", toks, Eat(toks, p, "If"))} })

\* Parser::parse_statement
ParseStatement(toks, p) ==
    IF p.st # "ok" THEN With(p, NoValue) ELSE
    LET kind == Kind(toks, p) IN
    CASE kind = "Annotation" -> ParseAnnotation(toks, p)
      [] kind = "At" -> ParseAnnotated(toks, p)
      [] kind = "External" -> ParsePrefixed(toks, p, "External")
      [] kind = "Inline" -> ParsePrefixed(toks, p, "Inline")
      [] kind = "Struct" -> ParseStruct(toks, p)
      [] kind = "Enum" -> ParseEnum(toks, p)
      [] kind = "Type" -> ParseTypeAlias(toks, p)
      [] kind = "Func" -> ParseFunction(toks, p)
      [] kind = "Var" -> ParseVariable(toks, p)
      [] kind = "Const" -> ParseConstant(toks, p)
      [] kind = "Return" -> ParseReturn(toks, p)
      [] kind = "Import" -> ParseImport(toks, p)
      [] kind = "While" -> ParseWhile(toks, p)
      [] kind = "If" -> ParseIf(toks, p)
      [] OTHER -> The({ With(e, [k |-> "Expression", expression |-> e.v,
                                 location |-> Loc(toks, e)])
                      : e \in {Self("parse_expression", toks, p)} })

Self(method, toks, p) ==
    CASE method = "parse_type" -> ParseType(toks, p)
      [] method = "parse_expression" -> ParseExpression(toks, p)
      [] method = "parse_statement" -> ParseStatement(toks, p)

\* one iteration of the loop of Parser::parse: skip a Newline, or parse a statement
\* and push it. The result is the parser with the field st added.
ParseIteration(ps) ==
    IF Kind(ps.tokens, PState(ps.current, ps.errors, "ok", NoValue)) = "Newline"
    THEN [tokens |-> ps.tokens, statements |-> ps.statements, current |-> ps.current + 1,
          errors |-> ps.errors, st |-> "ok"]
    ELSE The({ [tokens |-> ps.tokens,
                statements |-> IF s.st = "ok" THEN Append(ps.statements, s.v)
                               ELSE ps.statements,
                current |-> s.current, errors |-> s.errors,
                st |-> IF s.st = "ok" /\ s.current = ps.current THEN "hang" ELSE s.st]
             : s \in {Self("parse_statement", ps.tokens, PState(ps.current, ps.errors, "ok", NoValue))} })

----------------------------------------------------------------------------
(* Code generator: state, maps, output *)

\* A HashMap is a function on the set of its keys.
EmptyMap == [n \in {} |-> 0]
Has(m, key) == key \in DOMAIN m
Put(m, key, v) == [n \in DOMAIN m \cup {key} |-> IF n = key THEN v ELSE m[n]]
Del(m, key) == [n \in DOMAIN m \ {key} |-> m[n]]
Contains(list, x) == \E i \in 1..Len(list) : list[i] = x

\* Codegen::new. The field st is "ok" until a method aborts the process.
CodegenNew(statements) ==
    [statements |-> statements, structs |-> <<>>, struct_fields |-> EmptyMap,
     struct_functions |-> EmptyMap, enums |-> <<>>, type_aliases |-> <<>>,
     variable_types |-> EmptyMap, parameter_types |-> EmptyMap, annotations |-> EmptyMap,
     errors |-> <<>>, generic_types |-> EmptyMap, generic_type_names |-> <<>>,
     to_undef |-> <<>>, st |-> "ok"]

\* What a codegen method returns: the generator after the call and the text it
\* returns, a list of pieces whose concatenation is the Rust String. A separator
\* that the code pushes and may pop again (", " and ";\n") is a piece of its own.
Out(cg, out) == [cg |-> cg, out |-> out]
AddErr(cg, e) == [cg EXCEPT !.errors = Append(@, e)]
Abort(cg) == [cg EXCEPT !.st = "panic"]
\* code.pop(); code.pop();
Pop2(out) == IF out = <<>> THEN out ELSE SubSeq(out, 1, Len(out) - 1)
\* if condition { code.pop(); code.pop(); }
PopIf(r, condition) == Out(r.cg, IF condition THEN Pop2(r.out) ELSE r.out)
\* format!("{before}{}{after}", r): the text of a call between two texts
Wrap(r, before, after) == Out(r.cg, before \o r.out \o after)

RECURSIVE CodegenType(_, _), CodegenExpression(_, _), CodegenStatement(_, _),
          TypeList(_, _), ExprList(_, _), Body(_, _)

\* Codegen::codegen_type
CodegenType(cg, t) ==
    IF cg.st # "ok" THEN Out(cg, <<>>) ELSE
    CASE t.k = "Int" -> Out(cg, <<"int">>)
      [] t.k = "Usize" -> Out(cg, <<"size_t">>)
      [] t.k = "String" -> Out(cg, <<"const char*">>)
      [] t.k = "CString" -> Out(cg, <<"char*">>)
      [] t.k = "Char" -> Out(cg, <<"char">>)
      [] t.k = "Bool" -> Out(cg, <<"bool">>)
      [] t.k = "Void" -> Out(cg, <<"void">>)
      [] t.k = "Struct" -> Out(cg, <<"struct ", t.name>>)
      [] t.k = "Enum" -> Out(cg, <<"enum ", t.name>>)
      [] t.k = "Function" ->
            Out(AddErr(cg, TypeError("Function type is not allowed here", t.location)), <<>>)
      [] t.k \in {"Pointer", "DynamicArray"} -> Wrap(CodegenType(cg, t.t), <<>>, <<"*">>)
      [] t.k = "Array" -> CodegenType(cg, t.t)
      [] t.k = "Restrict" -> Wrap(CodegenType(cg, t.t), <<>>, <<" restrict">>)
      [] t.k = "Const" -> Wrap(CodegenType(cg, t.t), <<"const ">>, <<>>)
      [] t.k = "Volatile" -> Wrap(CodegenType(cg, t.t), <<"volatile ">>, <<>>)
      [] t.k = "GenericType" -> Out(cg, <<t.name>>)
      [] t.k = "Unknown" ->
            IF Contains(cg.structs, t.name) THEN Out(cg, <<"struct ", t.name>>)
            ELSE IF Contains(cg.enums, t.name) THEN Out(cg, <<"enum ", t.name>>)
            ELSE IF Contains(cg.type_aliases, t.name) THEN Out(cg, <<t.name>>)
            ELSE IF Contains(cg.generic_type_names, t.name) THEN Out(cg, <<t.name>>)
            ELSE Out(AddErr(cg, TypeError("Unknown type " \o t.name, t.location)), <<"ERROR">>)
      [] t.k = "Error" -> Out(AddErr(cg, t.error), <<"ERROR">>)

\* the text of a type, or of an expression, pushed after the text r that was
\* generated before it and the text between the two
TypeAfter(r, between, t) == Wrap(CodegenType(r.cg, t), r.out \o between, <<>>)
ExpressionAfter(r, between, e) == Wrap(CodegenExpression(r.cg, e), r.out \o between, <<>>)

\* for t in types { push(format!("{}, ", codegen_type(t))) }, pushed after r
TypeList(r, types) ==
    IF types = <<>> THEN r
    ELSE TypeList(Wrap(TypeAfter(r, <<>>, Head(types)), <<>>, <<", ">>), Tail(types))

\* for e in args { push(format!("{}, ", codegen_expression(e))) }, pushed after r
ExprList(r, args) ==
    IF args = <<>> THEN r
    ELSE ExprList(Wrap(ExpressionAfter(r, <<>>, Head(args)), <<>>, <<", ">>), Tail(args))

\* the list and, if args.len() > 0, the two pops that remove the last ", "
ExprListPopped(r, args) == PopIf(ExprList(r, args), Len(args) > 0)
TypeListPopped(r, types) == PopIf(TypeList(r, types), Len(types) > 0)

\* "{ret} (*{name})(" args ")": the pointer-to-function declarator, pushed after r
FunctionPointer(r, t, name) ==
    Wrap(TypeListPopped(Wrap(TypeAfter(r, <<>>, t.ret), <<>>, <<" (*", name, ")(">>), t.args),
         <<>>, <<")">>)

\* for (i, t) in generic_types[name].iter().enumerate() {
\*     push(format!("#define {} {}\n", t, self.clone().codegen_type(&types[i]))) }
\* The type is emitted by a clone of the generator: the errors it records are
\* dropped with the clone. types[i] aborts when i is not below types.len().
RECURSIVE GenericCallDefines(_, _, _, _)
GenericCallDefines(cg, params, types, i) ==
    IF cg.st # "ok" \/ i > Len(params) THEN Out(cg, <<>>)
    ELSE IF i > Len(types) THEN Out(Abort(cg), <<>>)
    ELSE Wrap(GenericCallDefines(cg, params, types, i + 1),
              <<"#define ", params[i], " ">> \o CodegenType(cg, types[i]).out \o <<"\n">>, <<>>)

\* to_undef.push(t.clone()) for the type parameters of the callee, after the call
PushToUndef(r, params) ==
    IF r.cg.st # "ok" THEN Out(r.cg, <<>>)
    ELSE Out([r.cg EXCEPT !.to_undef = @ \o params], r.out)

\* the Expression::GenericCall arm of codegen_expression
CodegenGenericCall(cg, e) ==
    IF ~Has(cg.generic_types, e.name) THEN Out(Abort(cg), <<>>)
    ELSE PushToUndef(
             Wrap(ExprListPopped(
                      Wrap(GenericCallDefines(cg, cg.generic_types[e.name], e.types, 1),
                           <<>>, <<e.name, "(">>),
                      e.args),
                  <<>>, <<")">>),
             cg.generic_types[e.name])

\* the Expression::Member arm of codegen_expression
CodegenMember(cg, e) ==
    LET obj == e.expression
        member == e.member
        name == obj.name
        invalid == Out(AddErr(cg, RuntimeError("Invalid member access", ExprLocation(obj))), <<>>)
        fields == cg.struct_fields[name]
        hits == {i \in 1..Len(fields) : fields[i][1] = member.name}
        first == CHOOSE h \in hits : \A g \in hits : h <= g
    IN
    IF obj.k # "Identifier"
    THEN ExpressionAfter(CodegenExpression(cg, obj), <<".">>, member)
    ELSE IF Has(cg.variable_types, name)
    THEN IF member.k = "Call"
         THEN Wrap(PopIf(ExprList(Out(cg, <<name, "->", member.name, "(", name, ", ">>),
                                  member.args), TRUE),
                   <<>>, <<")">>)
         ELSE IF cg.variable_types[name].k = "Pointer"
         THEN ExpressionAfter(CodegenExpression(cg, obj), <<"->">>, member)
         ELSE invalid
    ELSE IF Has(cg.parameter_types, name)
    THEN IF cg.parameter_types[name].k = "Pointer"
         THEN ExpressionAfter(CodegenExpression(cg, obj), <<"->">>, member)
         ELSE invalid
    ELSE IF Contains(cg.structs, name)
    THEN IF member.k = "Identifier"
         THEN IF hits = {}
              THEN Out(AddErr(cg, RuntimeError("Unknown field " \o member.name
                           \o " in struct " \o name, ExprLocation(obj))), <<>>)
              ELSE IF fields[first][2].k = "Function"
              THEN Out(cg, <<"__", name, "_", member.name>>)
              ELSE Out(cg, <<name, ".", member.name>>)
         ELSE Wrap(CodegenExpression(cg, member), <<name, ".">>, <<>>)
    ELSE IF Contains(cg.enums, name)
    THEN IF member.k = "Call"
         THEN Wrap(ExprListPopped(Out(cg, <<"__", name, "_values[", member.name, "](">>),
                                  member.args),
                   <<>>, <<")">>)
         ELSE IF member.k = "Identifier"
         THEN Out(cg, <<"__", name, "_values[", member.name, "]">>)
         ELSE Out(AddErr(cg, RuntimeError("Invalid enum member access", ExprLocation(obj))),
                  <<>>)
    ELSE Wrap(CodegenExpression(cg, member), <<name, ".">>, <<>>)

BinaryOps ==
    [Plus |-> "+", Minus |-> "-", Star |-> "*", Slash |-> "/", Percent |-> "%",
     EqualEqual |-> "==", BangEqual |-> "!=", Less |-> "<", LessEqual |-> "<=",
     Greater |-> ">", GreaterEqual |-> ">="]

\* Codegen::codegen_expression
CodegenExpression(cg, e) ==
    IF cg.st # "ok" THEN Out(cg, <<>>) ELSE
    CASE e.k = "Number" -> Out(cg, <<e.value>>)
      [] e.k = "String" -> Out(cg, <<"\"", e.value, "\"">>)
      [] e.k = "Char" -> Out(cg, <<"'", e.value, "'">>)
      [] e.k = "Boolean" -> Out(cg, <<IF e.value THEN "true" ELSE "false">>)
      [] e.k = "Identifier" -> Out(cg, <<e.name>>)
      [] e.k = "Null" -> Out(cg, <<"NULL">>)
      [] e.k = "Call" ->
            IF Contains(cg.structs, e.name)
            THEN Wrap(ExprListPopped(Out(cg, <<"&(struct ", e.name, "){">>), e.args),
                      <<>>, <<"}">>)
            ELSE Wrap(ExprListPopped(Out(cg, <<e.name, "(">>), e.args), <<>>, <<")">>)
      [] e.k = "GenericCall" -> CodegenGenericCall(cg, e)
      [] e.k = "Member" -> CodegenMember(cg, e)
      [] e.k = "Grouping" -> Wrap(CodegenExpression(cg, e.expression), <<"(">>, <<")">>)
      [] e.k = "NamedArgument" ->
            Wrap(CodegenExpression(cg, e.value), <<".", e.name, " = ">>, <<>>)
      [] e.k = "Cast" ->
            ExpressionAfter(Wrap(CodegenType(cg, e.t), <<"(">>, <<>>), <<")">>, e.expression)
      [] e.k = "SizeOf" -> Wrap(CodegenType(cg, e.t), <<"sizeof(">>, <<")">>)
      [] e.k = "Index" ->
            Wrap(ExpressionAfter(CodegenExpression(cg, e.expression), <<"[">>, e.index),
                 <<>>, <<"]">>)
      [] e.k = "Array" -> Wrap(ExprListPopped(Out(cg, <<"{">>), e.elements), <<>>, <<"}">>)
      [] e.k = "New" ->
            Wrap(ExprListPopped(Out(cg, <<"__", e.name, "_constructor(">>), e.args),
                 <<>>, <<")">>)
      [] e.k = "Unary" ->
            IF e.op \in {"Minus", "Bang"}
            THEN Wrap(CodegenExpression(cg, e.expression),
                      <<IF e.op = "Minus" THEN "-" ELSE "!">>, <<>>)
            ELSE Out(AddErr(cg, RuntimeError("Invalid unary operator",
                                             ExprLocation(e.expression))), <<>>)
      [] e.k = "Binary" ->
            IF e.op \in DOMAIN BinaryOps
            THEN ExpressionAfter(CodegenExpression(cg, e.left),
                                 <<" ", BinaryOps[e.op], " ">>, e.right)
            ELSE Out(AddErr(cg, RuntimeError("Invalid binary operator", ExprLocation(e.left))),
                     <<>>)
      [] e.k = "Ternary" ->
            ExpressionAfter(ExpressionAfter(CodegenExpression(cg, e.condition), <<" ? ">>, e.left),
                            <<" : ">>, e.right)
      [] e.k = "Assignment" ->
            ExpressionAfter(CodegenExpression(cg, e.left), <<" = ">>, e.right)
      [] e.k = "AddressOf" -> Wrap(CodegenExpression(cg, e.expression), <<"&">>, <<>>)
      [] e.k = "Dereference" -> Wrap(CodegenExpression(cg, e.expression), <<"*">>, <<>>)
      [] e.k = "Range" -> ExpressionAfter(CodegenExpression(cg, e.from), <<"..">>, e.to)
      [] e.k = "Empty" -> Out(cg, <<>>)
      [] e.k = "Error" -> Out(AddErr(cg, e.error), <<>>)

----------------------------------------------------------------------------
(* Code generator: statements *)

\* code.push_str(text) after the text r
Push(r, text) == Out(r.cg, r.out \o text)
\* code.push_str(&self.codegen_statement(s)) after the text r
StatementAfter(r, s) == Wrap(CodegenStatement(r.cg, s), r.out, <<>>)

\* for statement in body { code.push_str(codegen_statement(statement)) }, after r
Body(r, stmts) ==
    IF stmts = <<>> THEN r ELSE Body(StatementAfter(r, Head(stmts)), Tail(stmts))

RECURSIVE GenericDefines(_, _)
\* the first loop of codegen_generic: one "#define NAME[ bound]\n" per type parameter
GenericDefines(r, type_parameters) ==
    IF type_parameters = <<>> THEN r
    ELSE LET name == Head(type_parameters)[1]
             bound == Head(type_parameters)[2]
             define == Out([r.cg EXCEPT !.generic_type_names = Append(@, name)],
                           r.out \o <<"#define ", name>>)
         IN  GenericDefines(
                 Push(IF bound # <<>> THEN TypeAfter(define, <<" ">>, bound[1]) ELSE define,
                      <<"\n">>),
                 Tail(type_parameters))

\* a codegen_generic whose last loop pushes no "#undef"
NoUndefs(names) == <<>>

RECURSIVE Undefs(_)
\* one "#undef NAME\n" per name
Undefs(names) ==
    IF names = <<>> THEN <<>> ELSE <<"#undef ", Head(names), "\n">> \o Undefs(Tail(names))

Names(pairs) == [i \in 1..Len(pairs) |-> pairs[i][1]]

\* Codegen::codegen_generic
CodegenGeneric(cg, s) ==
    LET Register(r) ==
            IF s.statement.k = "Function"
            THEN Out([r.cg EXCEPT !.generic_types =
                         Put(@, s.statement.name, Names(s.type_parameters))], r.out)
            ELSE r
    IN  Push(StatementAfter(Register(GenericDefines(Out(cg, <<>>), s.type_parameters)),
                            s.statement),
             Undefs(Names(s.type_parameters)))

RECURSIVE JoinNames(_)
JoinNames(names) ==
    IF names = <<>> THEN <<>>
    ELSE IF Len(names) = 1 THEN <<names[1]>>
    ELSE <<names[1], ", ">> \o JoinNames(Tail(names))

\* Codegen::codegen_annotation_statement
CodegenAnnotationStatement(cg, s) ==
    Out([cg EXCEPT !.annotations = Put(@, s.name, s.fields)],
        <<"#define ", s.name, "(">> \o JoinNames(Names(s.fields))
            \o <<") __attribute__((annotate(\"", s.name, "\")))", "\n">>)

\* a generator that looks no annotation name up
NoChecks(cg, annotations) == cg

RECURSIVE AnnotationChecks(_, _), AnnotationUses(_, _)
\* Codegen::codegen_annotation, for every use: an error for an undeclared name
AnnotationChecks(cg, annotations) ==
    IF annotations = <<>> THEN cg
    ELSE AnnotationChecks(
             IF Has(cg.annotations, Head(annotations).name) THEN cg
             ELSE AddErr(cg, TypeError("unknown annotation " \o Head(annotations).name,
                                       Head(annotations).location)),
             Tail(annotations))

RECURSIVE JoinExprs(_, _)
\* the arguments of one annotation use, ", " between them
JoinExprs(r, args) ==
    IF args = <<>> THEN r
    ELSE JoinExprs(Push(ExpressionAfter(r, <<>>, Head(args)),
                        IF Len(args) > 1 THEN <<", ">> ELSE <<>>),
                   Tail(args))

\* " name(args)" per annotation use
AnnotationUses(r, annotations) ==
    IF annotations = <<>> THEN r
    ELSE AnnotationUses(
             Push(JoinExprs(Push(r, <<" ", Head(annotations).name, "(">>),
                            Head(annotations).arguments),
                  <<")">>),
             Tail(annotations))

RECURSIVE TypesSilently(_, _)
\* codegen_type on every type of a list, for a string that is never emitted
TypesSilently(cg, types) ==
    IF types = <<>> THEN cg ELSE TypesSilently(CodegenType(cg, Head(types)).cg, Tail(types))

\* What codegen_struct computes for a function-typed field beside the field itself:
\* the constructor (field "constructor") or the forward declaration. Neither string
\* is emitted, but the types are generated, and fields.get(i).unwrap() aborts when
\* the constructor has more arguments than the struct has fields.
StructFieldExtras(r, fields, field) ==
    IF field[1] # "constructor"
    THEN Out(TypesSilently(r.cg, <<field[2].ret>> \o field[2].args), r.out)
    ELSE IF Len(field[2].args) > Len(fields)
    THEN Out(Abort(TypesSilently(r.cg, <<field[2].ret>> \o field[2].args
                                         \o <<field[2].ret, field[2].ret, field[2].ret>>)),
             r.out)
    ELSE Out(TypesSilently(r.cg, <<field[2].ret>> \o field[2].args
                                   \o <<field[2].ret, field[2].ret, field[2].ret>>),
             r.out)

RECURSIVE StructFields(_, _, _)
\* the field loop of codegen_struct
StructFields(r, fields, i) ==
    IF r.cg.st # "ok" \/ i > Len(fields) THEN r
    ELSE IF fields[i][2].k = "Function"
    THEN StructFields(
             Push(StructFieldExtras(FunctionPointer(r, fields[i][2], fields[i][1]),
                                    fields, fields[i]),
                  <<";\n">>),
             fields, i + 1)
    ELSE StructFields(Push(TypeAfter(r, <<>>, fields[i][2]), <<" ", fields[i][1], ";\n">>),
                      fields, i + 1)

\* a codegen_struct that emits the struct and registers nothing
StructUnregistered(cg, s) ==
    IF Len(s.fields) = 0 THEN Out(cg, <<"struct ", s.name, ";\n">>)
    ELSE Push(StructFields(Out(cg, <<"struct ", s.name, " {\n">>), s.fields, 1),
              <<"}", ";\n">>)

\* Codegen::codegen_struct
CodegenStruct(cg, s) ==
    LET cg1 == [cg EXCEPT !.structs = Append(@, s.name),
                          !.struct_fields = Put(@, s.name, s.fields),
                          !.struct_functions = Put(@, s.name, <<>>)]
    IN  IF Len(s.fields) = 0 THEN Out(cg1, <<"struct ", s.name, ";\n">>)
        ELSE Push(StructFields(Out(cg1, <<"struct ", s.name, " {\n">>), s.fields, 1),
                  <<"}", ";\n">>)

\* Codegen::codegen_annotated
CodegenAnnotated(cg, s) ==
    IF s.statement.k = "Struct"
    THEN Push(AnnotationUses(PopIf(CodegenStruct(AnnotationChecks(cg, s.annotations),
                                                 s.statement), TRUE),
                             s.annotations),
              <<";\n">>)
    ELSE Out(AddErr(AnnotationChecks(cg, s.annotations),
                    TypeError("cannot annotate this statement", StmtLocation(s.statement))),
             <<>>)

RECURSIVE EnumValues(_, _)
\* "[Variant] = value,\n" per variant
EnumValues(r, variants) ==
    IF variants = <<>> THEN r
    ELSE EnumValues(Push(ExpressionAfter(r, <<"[", Head(variants)[1], "] = ">>,
                                         Head(variants)[2]),
                         <<",\n">>),
                    Tail(variants))

RECURSIVE EnumNames(_)
EnumNames(variants) ==
    IF variants = <<>> THEN <<>>
    ELSE <<Head(variants)[1], ",\n">> \o EnumNames(Tail(variants))

\* Codegen::codegen_enum
CodegenEnum(cg, s) ==
    LET head == <<"enum ", s.name, " {\n">> \o EnumNames(s.variants) \o <<"};\n", "static ">>
        Register(r) == Out([r.cg EXCEPT !.enums = Append(@, s.name)], r.out \o <<"};\n">>)
    IN  Register(EnumValues(
            IF s.enum_type.k = "Function"
            THEN Push(TypeListPopped(Push(TypeAfter(Out(cg, head), <<>>, s.enum_type.ret),
                                          <<" (*const __", s.name, "_values[])(">>),
                                     s.enum_type.args),
                      <<") = {\n">>)
            ELSE Push(TypeAfter(Out(cg, head), <<>>, s.enum_type),
                      <<" const __", s.name, "_values[] = {\n">>),
            s.variants))

RECURSIVE UnionMembers(_, _, _)
\* "T __i;\n" per type
UnionMembers(r, types, i) ==
    IF i > Len(types) THEN r
    ELSE UnionMembers(Push(TypeAfter(r, <<>>, types[i]), <<" __", ToString(i - 1), ";\n">>),
                      types, i + 1)

\* Codegen::codegen_type_alias
CodegenTypeAlias(cg, s) ==
    LET Register(r) == Out([r.cg EXCEPT !.type_aliases = Append(@, s.name)],
                           r.out \o <<" ", s.name, ";\n">>)
    IN  Register(IF Len(s.types) = 1
                 THEN TypeAfter(Out(cg, <<"typedef ">>), <<>>, s.types[1])
                 ELSE Push(UnionMembers(Out(cg, <<"typedef ", "union {\n">>), s.types, 1),
                           <<"}">>))

RECURSIVE FunctionParams(_, _, _), RemoveParams(_, _)
\* the parameter loop of codegen_function (pointers == TRUE: a function-typed
\* parameter is written as a pointer to function) and of codegen_struct_function
FunctionParams(r, args, pointers) ==
    IF args = <<>> THEN r
    ELSE LET arg_name == Head(args)[1]
             arg_type == Head(args)[2]
             r1 == Out([r.cg EXCEPT !.parameter_types = Put(@, arg_name, arg_type)], r.out)
         IN  FunctionParams(
                 Push(IF pointers /\ arg_type.k = "Function"
                      THEN FunctionPointer(r1, arg_type, arg_name)
                      ELSE Push(TypeAfter(r1, <<>>, arg_type), <<" ", arg_name>>),
                      <<", ">>),
                 Tail(args), pointers)

\* for (arg_name, _) in args { self.parameter_types.remove(arg_name) }
RemoveParams(cg, args) ==
    IF args = <<>> THEN cg
    ELSE RemoveParams([cg EXCEPT !.parameter_types = Del(@, Head(args)[1])], Tail(args))

\* "{ret} {c_name}(" params ") {\n": what codegen_function and
\* codegen_struct_function emit, and record in parameter_types, before the body
FunctionHeader(cg, c_name, s, pointers) ==
    Push(PopIf(FunctionParams(Push(CodegenType(cg, s.return_type),
                                   <<" ">> \o c_name \o <<"(">>),
                              s.args, pointers),
               Len(s.args) > 0),
         <<") {\n">>)

\* the common part of codegen_function and codegen_struct_function
FunctionText(cg, c_name, s, pointers) ==
    LET Finish(r) == Out(IF r.cg.st = "ok" THEN RemoveParams(r.cg, s.args) ELSE r.cg,
                         r.out \o <<"}\n">>)
    IN  Finish(Body(FunctionHeader(cg, c_name, s, pointers), s.body))

\* Codegen::codegen_function
CodegenFunction(cg, s) == FunctionText(cg, <<s.name>>, s, TRUE)

\* Codegen::codegen_struct_function: struct_functions.get(struct_name).unwrap()
\* aborts when the struct was not emitted before
CodegenStructFunction(cg, s) ==
    IF ~Has(cg.struct_functions, s.struct_name) THEN Out(Abort(cg), <<>>)
    ELSE FunctionText(cg, <<"__", s.struct_name, "_", s.name>>, s, FALSE)

\* the declarator of codegen_variable
VariableDeclarator(cg, name, t) ==
    IF t.k = "Array"
    THEN Push(ExpressionAfter(Push(CodegenType(cg, t.t), <<" ", name>>), <<"[">>, t.size),
              <<"]">>)
    ELSE IF t.k = "Function" THEN FunctionPointer(Out(cg, <<>>), t, name)
    ELSE Push(CodegenType(cg, t), <<" ", name>>)

\* Codegen::codegen_variable
CodegenVariable(cg, s) ==
    LET cg1 == [cg EXCEPT !.variable_types = Put(@, s.name, s.t)]
    IN  IF s.value.k = "Empty" THEN Push(VariableDeclarator(cg1, s.name, s.t), <<";\n">>)
        ELSE Push(ExpressionAfter(VariableDeclarator(cg1, s.name, s.t), <<" = ">>, s.value),
                  <<";\n">>)

\* Codegen::codegen_constant
CodegenConstant(cg, s) ==
    LET cg1 == [cg EXCEPT !.variable_types = Put(@, s.name, s.t)]
    IN  Push(ExpressionAfter(Push(TypeAfter(Out(cg1, <<"const ">>), <<>>, s.t),
                                  <<" ", s.name>>),
                             <<" = ">>, s.value),
             <<";\n">>)

\* str::starts_with
StartsWith(s, prefix) == Len(s) >= Len(prefix) /\ SubSeq(s, 1, Len(prefix)) = prefix

RECURSIVE TrimStartMatches(_, _)
\* str::trim_start_matches: the prefix is removed as often as it repeats
TrimStartMatches(s, prefix) ==
    IF StartsWith(s, prefix) THEN TrimStartMatches(SubSeq(s, Len(prefix) + 1, Len(s)), prefix)
    ELSE s

StdPrefix == <<"s", "t", "d", "/">>

\* Codegen::codegen_import
CodegenImport(cg, s) ==
    IF StartsWith(s.path, StdPrefix)
    THEN Out(cg, <<"#include <", Str(TrimStartMatches(s.path, StdPrefix)), ">\n">>)
    ELSE Out(cg, <<"#include \"", Str(s.path), "\"\n">>)

\* "{head}{condition}) {\n{body}}\n": the condition and the body of if and while
ConditionBlock(cg, head, s) ==
    Push(Body(Push(ExpressionAfter(Out(cg, <<head>>), <<>>, s.condition), <<") {\n">>), s.body),
         <<"}\n">>)

\* Codegen::codegen_if: the else body is emitted when it has statements
CodegenIf(cg, s) ==
    IF Len(s.else_body) > 0
    THEN Push(Body(Push(ConditionBlock(cg, "if (", s), <<"else {\n">>), s.else_body), <<"}\n">>)
    ELSE ConditionBlock(cg, "if (", s)

\* Codegen::codegen_while
CodegenWhile(cg, s) == ConditionBlock(cg, "while (", s)

\* Codegen::codegen_statement
CodegenStatement(cg, s) ==
    IF cg.st # "ok" THEN Out(cg, <<>>) ELSE
    CASE s.k = "Generic" -> CodegenGeneric(cg, s)
      [] s.k = "Annotation" -> CodegenAnnotationStatement(cg, s)
      [] s.k = "Annotated" -> CodegenAnnotated(cg, s)
      [] s.k \in {"External", "Inline"} ->
            Wrap(CodegenStatement(cg, s.statement),
                 <<IF s.k = "External" THEN "extern " ELSE "inline ">>, <<>>)
      [] s.k = "Struct" -> CodegenStruct(cg, s)
      [] s.k = "Enum" -> CodegenEnum(cg, s)
      [] s.k = "TypeAlias" -> CodegenTypeAlias(cg, s)
      [] s.k = "Function" -> CodegenFunction(cg, s)
      [] s.k = "StructFunction" -> CodegenStructFunction(cg, s)
      [] s.k = "Variable" -> CodegenVariable(cg, s)
      [] s.k = "Constant" -> CodegenConstant(cg, s)
      [] s.k = "Return" -> Wrap(CodegenExpression(cg, s.value), <<"return ">>, <<";\n">>)
      [] s.k = "Import" -> CodegenImport(cg, s)
      [] s.k = "While" -> CodegenWhile(cg, s)
      [] s.k = "If" -> CodegenIf(cg, s)
      [] s.k = "Expression" -> Push(CodegenExpression(cg, s.expression), <<";\n">>)

RECURSIVE DrainLoop(_, _, _)
\* for (i, undef) in self.clone().to_undef.iter().enumerate() {
\*     self.to_undef.remove(i); code.push_str(format!("#undef {}\n", undef)) }
\* `pending` is the clone the loop walks; Vec::remove(i) aborts when i is not below
\* the current length of self.to_undef (i counts from 1 here).
DrainLoop(r, pending, i) ==
    IF i > Len(pending) THEN r
    ELSE IF i > Len(r.cg.to_undef) THEN Out(Abort(r.cg), r.out)
    ELSE DrainLoop(Out([r.cg EXCEPT !.to_undef = SubSeq(@, 1, i - 1) \o SubSeq(@, i + 1, Len(@))],
                       r.out \o <<"#undef ", pending[i], "\n">>),
                   pending, i + 1)

\* the undef loop that follows each top-level statement in Codegen::codegen
Drain(r) == IF r.cg.st # "ok" THEN r ELSE DrainLoop(r, r.cg.to_undef, 1)

\* one iteration of the loop of Codegen::codegen: the statement, then the drain
CodegenIteration(cg, statement) == Drain(CodegenStatement(cg, statement))

----------------------------------------------------------------------------
(* The driver: main() *)

\* the characters of a text
Chars(s) == [i \in 1..Len(s) |-> SubSeq(s, i, i)]

\* a stage main() has not constructed yet
ParserNone == [ParserNew(<<>>) EXCEPT !.st = "none"]
CodegenNone == [CodegenNew(<<>>) EXCEPT !.st = "none"]
NothingPrinted == [stage |-> "none", errors |-> <<>>]

\* main() up to Lexer::new, on the file contents
MainStart(contents) ==
    /\ pc = "lex"
    /\ lexer = LexerNew(contents)
    /\ parser = ParserNone
    /\ codegen = CodegenNone
    /\ code = <<>>
    /\ next_stmt = 1
    /\ printed = NothingPrinted
    /\ written = FALSE

\* one iteration of the loop of Lexer::lex
LexStep ==
    /\ pc = "lex"
    /\ lexer.st = "ok"
    /\ lexer.current < ByteLen(lexer.contents)
    /\ lexer' = LexIteration(lexer)
    /\ pc' = IF lexer'.st = "panic" THEN "panic" ELSE "lex"
    /\ UNCHANGED <<parser, codegen, code, next_stmt, printed, written>>

\* a main() that builds the parser whatever the lexer's error list holds
MainAfterLexUngated ==
    /\ pc = "lex"
    /\ lexer.st = "ok"
    /\ lexer.current >= ByteLen(lexer.contents)
    /\ parser' = ParserNew(lexer.tokens)
    /\ pc' = "parse"
    /\ UNCHANGED <<lexer, codegen, code, next_stmt, printed, written>>

\* lex() returns; main() prints the lexer's errors and returns, or builds the parser
MainAfterLex ==
    /\ pc = "lex"
    /\ lexer.st = "ok"
    /\ lexer.current >= ByteLen(lexer.contents)
    /\ IF Len(lexer.errors) > 0
       THEN /\ printed' = [stage |-> "lexer", errors |-> lexer.errors]
            /\ pc' = "done"
            /\ UNCHANGED parser
       ELSE /\ parser' = ParserNew(lexer.tokens)
            /\ pc' = "parse"
            /\ UNCHANGED printed
    /\ UNCHANGED <<lexer, codegen, code, next_stmt, written>>

\* one iteration of the loop of Parser::parse
ParseStep ==
    /\ pc = "parse"
    /\ parser.st = "ok"
    /\ parser.current < Len(parser.tokens)
    /\ parser' = ParseIteration(parser)
    /\ pc' = IF parser'.st = "ok" THEN "parse" ELSE parser'.st
    /\ UNCHANGED <<lexer, codegen, code, next_stmt, printed, written>>

\* parse() returns; main() prints the parser's errors and returns, or builds the
\* code generator
MainAfterParse ==
    /\ pc = "parse"
    /\ parser.st = "ok"
    /\ parser.current >= Len(parser.tokens)
    /\ IF Len(parser.errors) > 0
       THEN /\ printed' = [stage |-> "parser", errors |-> parser.errors]
            /\ pc' = "done"
            /\ UNCHANGED codegen
       ELSE /\ codegen' = CodegenNew(parser.statements)
            /\ pc' = "codegen"
            /\ UNCHANGED printed
    /\ UNCHANGED <<lexer, parser, code, next_stmt, written>>

\* one iteration of the loop of Codegen::codegen: a top-level statement and the drain
CodegenStep ==
    /\ pc = "codegen"
    /\ codegen.st = "ok"
    /\ next_stmt <= Len(codegen.statements)
    /\ LET r == CodegenIteration(codegen, codegen.statements[next_stmt]) IN
       /\ codegen' = r.cg
       /\ IF r.cg.st = "ok"
          THEN code' = code \o r.out /\ next_stmt' = next_stmt + 1 /\ pc' = "codegen"
          ELSE UNCHANGED <<code, next_stmt>> /\ pc' = "panic"
    /\ UNCHANGED <<lexer, parser, printed, written>>

\* codegen() returns; main() prints the generator's errors and returns, or writes
\* the .c file
MainAfterCodegen ==
    /\ pc = "codegen"
    /\ codegen.st = "ok"
    /\ next_stmt > Len(codegen.statements)
    /\ IF Len(codegen.errors) > 0
       THEN /\ printed' = [stage |-> "codegen", errors |-> codegen.errors]
            /\ UNCHANGED written
       ELSE /\ written' = TRUE
            /\ UNCHANGED printed
    /\ pc' = "done"
    /\ UNCHANGED <<lexer, parser, codegen, code, next_stmt>>

----------------------------------------------------------------------------
(* The files main() is run on *)

\* complete lines of SL source
SourceLines ==
    {"var x: int = 1\n",
     "var y: Foo\n",
     "var s: string = \"\\q\"\n",
     "x = $\n",
     "1(2)\n",
     "struct S\na: int\nend\n",
     "func S.m()\nend\n",
     "func f[T](x: T): T\nreturn x\nend\n",
     "f(a: 1)\n",
     "99999999999999999999\n",
     ")\n",
     "// c\n",
     "import \"std/a.h\"\n"}

\* what a file may end with: nothing, or a line that lacks its end
LastLines == {"", "a[", "f(a", "type A = int"}

RECURSIVE Lines(_)
\* the texts of at most n complete lines
Lines(n) ==
    IF n = 0 THEN {""}
    ELSE LET shorter == Lines(n - 1) IN shorter \cup {f \o l : f \in shorter, l \in SourceLines}

\* the files: at most n complete lines, then the last line
Files(n) == {f \o l : f \in Lines(n), l \in LastLines}

Init == \E text \in Files(MaxLines) : MainStart(Chars(text))

Next ==
    \/ LexStep
    \/ MainAfterLex
    \/ ParseStep
    \/ MainAfterParse
    \/ CodegenStep
    \/ MainAfterCodegen

\* main() on a source file
Spec == Init /\ [][Next]_vars

----------------------------------------------------------------------------
(* The lexer on every short text *)

\* the characters of the texts: a letter (not an escape character), the double
\* quote, the backslash, the newline, the slash, a character outside ASCII
SourceChars == {"a", "\"", "\\", "\n", "/", "é"}

RECURSIVE Sources(_)
\* the texts of at most n characters
Sources(n) ==
    IF n = 0 THEN {<<>>}
    ELSE LET shorter == Sources(n - 1)
         IN  shorter \cup {Append(s, c) : s \in {t \in shorter : Len(t) = n - 1}, c \in SourceChars}

InitLex == \E contents \in Sources(MaxSrcLen) : MainStart(contents)

NextLex ==
    \/ LexStep
    \/ MainAfterLex

\* main() up to the end of the lexer stage, on every short text
SpecLex == InitLex /\ [][NextLex]_vars

----------------------------------------------------------------------------
(* The code generator on statement lists built by hand *)

NoLocation == TokenLocation(0, 0)
IntType == [k |-> "Int", location |-> NoLocation]
UnknownType(name) == [k |-> "Unknown", name |-> name, location |-> NoLocation]
NumberExpr(value) == [k |-> "Number", value |-> value, location |-> NoLocation]
IdentifierExpr(name) == [k |-> "Identifier", name |-> name, location |-> NoLocation]
GenericCallExpr(name, types, args) ==
    [k |-> "GenericCall", name |-> name, types |-> types, args |-> args,
     location |-> NoLocation]
ExpressionStmt(expression) ==
    [k |-> "Expression", expression |-> expression, location |-> NoLocation]
VariableStmt(name, t, value) ==
    [k |-> "Variable", name |-> name, t |-> t, value |-> value, location |-> NoLocation]

\* func name[params](x: P1): P1  return x  end
GenericFunctionStmt(name, params) ==
    [k |-> "Generic",
     statement |-> [k |-> "Function", name |-> name,
                    args |-> <<<<"x", UnknownType(params[1])>>>>,
                    return_type |-> UnknownType(params[1]),
                    body |-> <<[k |-> "Return", value |-> IdentifierExpr("x"),
                                location |-> NoLocation]>>,
                    location |-> NoLocation],
     type_parameters |-> [i \in 1..Len(params) |-> <<params[i], <<>>>>],
     location |-> NoLocation]

\* the statements the lists are made of
StatementPool ==
    {GenericFunctionStmt("f", <<"T">>),
     GenericFunctionStmt("g", <<"T", "U">>),
     ExpressionStmt(GenericCallExpr("f", <<IntType>>, <<NumberExpr("1")>>)),
     ExpressionStmt(GenericCallExpr("g", <<IntType, IntType>>, <<NumberExpr("1")>>)),
     ExpressionStmt(GenericCallExpr("f", <<UnknownType("Foo")>>, <<NumberExpr("1")>>)),
     ExpressionStmt(GenericCallExpr("h", <<IntType>>, <<NumberExpr("1")>>)),
     ExpressionStmt(GenericCallExpr("g", <<IntType>>, <<NumberExpr("1")>>)),
     ExpressionStmt(GenericCallExpr("f", <<IntType>>,
                        <<GenericCallExpr("f", <<IntType>>, <<NumberExpr("1")>>)>>)),
     VariableStmt("y", UnknownType("Foo"), [k |-> "Empty"]),
     VariableStmt("x", IntType, NumberExpr("1"))}

RECURSIVE StatementLists(_)
\* the lists of at most n statements
StatementLists(n) ==
    IF n = 0 THEN {<<>>}
    ELSE LET shorter == StatementLists(n - 1)
         IN  shorter \cup {Append(l, s) : l \in {t \in shorter : Len(t) = n - 1}, s \in StatementPool}

\* main() at Codegen::new(statements), the earlier stages done without errors
MainAtCodegen(statements) ==
    /\ pc = "codegen"
    /\ lexer = LexerNew(<<>>)
    /\ parser = [ParserNew(<<>>) EXCEPT !.statements = statements]
    /\ codegen = CodegenNew(statements)
    /\ code = <<>>
    /\ next_stmt = 1
    /\ printed = NothingPrinted
    /\ written = FALSE

InitGen == \E statements \in StatementLists(MaxStatements) : MainAtCodegen(statements)

NextGen ==
    \/ CodegenStep
    \/ MainAfterCodegen

\* main() from Codegen::new on, on every short statement list
SpecGen == InitGen /\ [][NextGen]_vars

----------------------------------------------------------------------------
(* main() on programs that exercise one construct each *)

\* most `else if` branches of an if chain
MaxElseIfs == 2

\* generic calls
GenericCallSources == {"f[int](1)\n", "f[int, int](1, 2)\n", "x = f[int](1)\n"}

\* index expressions
IndexSources == {"a[i + 1]\n"}

\* the binary operators: text, token kind, and level of parse_multiplicative (3),
\* parse_additive (2) or parse_comparison (1)
BinaryOperators ==
    {<<"*", "Star", 3>>, <<"/", "Slash", 3>>, <<"%", "Percent", 3>>,
     <<"+", "Plus", 2>>, <<"-", "Minus", 2>>,
     <<"==", "EqualEqual", 1>>, <<"!=", "BangEqual", 1>>, <<"<", "Less", 1>>,
     <<"<=", "LessEqual", 1>>, <<">", "Greater", 1>>, <<">=", "GreaterEqual", 1>>}
\* a op1 b op2 c
ChainSource(op1, op2) == "a " \o op1[1] \o " b " \o op2[1] \o " c\n"
ChainSources == {ChainSource(op1, op2) : op1 \in BinaryOperators, op2 \in BinaryOperators}

RECURSIVE ElseIfs(_)
ElseIfs(n) == IF n = 0 THEN "" ELSE "else if b\ny\n" \o ElseIfs(n - 1)
\* an if chain with n `else if` branches, with or without a last `else`, and a
\* statement after its `end`
IfChainSource(n, else_text) == "if a\nx\n" \o ElseIfs(n) \o else_text \o "end\nq\n"
LastElse == {"", "else\nz\n"}
IfChainSources == {IfChainSource(n, e) : n \in 0..MaxElseIfs, e \in LastElse}

\* member accesses on variables and on parameters, of pointer type or not: the
\* member is a call or a field
MemberTypes == {"int*", "int"}
Members == {"g(1)", "x"}
VariableMember(t, m) == "var v: " \o t \o " = q\nv." \o m \o "\n"
ParameterMember(t, m) == "func f(p: " \o t \o ")\np." \o m \o "\nend\n"
MemberSources ==
    {VariableMember(t, m) : t \in MemberTypes, m \in Members}
        \cup {ParameterMember(t, m) : t \in MemberTypes, m \in Members}

\* annotation declarations and uses: on a struct with fields, on a struct without
\* fields, two uses on one struct, a use of an undeclared annotation, and uses on
\* statements that are not structs
OneUse == "annotation A\nend\n@A\nstruct S\nx: int\nend\n"
UseOnEmptyStruct == "annotation A\nn: int\nend\n@A(1)\nstruct S\nend\n"
TwoUses ==
    "annotation A\nend\nannotation B\nn: int\nm: int\nend\n@A\n@B(1, 2)\nstruct S\nx: int\nend\n"
UndeclaredUse == "@A\nstruct S\nx: int\nend\n"
AnnotatedVariable == "annotation A\nend\n@A\nvar x: int = 1\n"
AnnotatedFunction == "annotation A\nend\n@A\nfunc f()\nend\n"
AnnotationSources ==
    {OneUse, UseOnEmptyStruct, TwoUses, UndeclaredUse, AnnotatedVariable, AnnotatedFunction}

\* functions and their parameters
FunctionSources ==
    {"func f(p: int*)\nfunc g(p: int)\nend\np.x\nend\n",
     "func f(p: int*, n: int)\nfunc g(m: int)\nend\np.x\nend\n",
     "func f(x: Foo): Bar\nend\n",
     "func f(x: Foo, y: Bar)\nend\n"}

\* constants and the variables of the same type
DeclarationSources ==
    {"const c: int = 1\n", "var c: int = 1\n",
     "const a: int[3] = x\n", "var a: int[3] = x\n",
     "const p: int* = x\n",
     "const h: func(int): int = x\n", "var h: func(int): int = x\n"}

\* imports: of the standard directory, of another one, and with `std/` twice
ImportSources ==
    {"import \"std/a.h\"\n", "import \"a.h\"\n", "import \"std/std/x.h\"\n",
     "import \"x/std/a.h\"\n"}

\* statements that lack a token the grammar requires: the newline after the
\* path of an import, the path itself, the colon of a declaration, and the
\* newline at the end of the file
ImportViolations == {"import \"a.h\" x\n", "import x\n"}
ExpectSources == ImportViolations \cup {"var x int\n", "return 1"}

\* a variable, or a constant, declared in a function body, and a member access
\* on the same name after the function
ScopeSources ==
    {"func f()\nvar v: int* = q\nend\nv.x\n", "func f()\nconst v: int* = q\nend\nv.x\n"}

\* a generic function, and its type parameter used as a type after it
GenericScopeSources ==
    {"func f[T](x: T): T\nreturn x\nend\nvar y: T = 1\n",
     "func f[T](x: T): T\nreturn x\nend\nvar y: U = 1\n"}

\* a struct with a field of its own type, and a variable whose type is a
\* struct, an enum or an alias that is declared after it, or before it
SelfReference == "struct S\nnext: S*\nend\n"
DeclaredLater ==
    {"var x: S = 1\nstruct S\na: int\nend\n", "var x: S = 1\nenum S: int\nA = 1\nend\n",
     "var x: S = 1\ntype S = int\n"}
DeclaredBefore ==
    {"struct S\na: int\nend\nvar x: S = 1\n", "enum S: int\nA = 1\nend\nvar x: S = 1\n",
     "type S = int\nvar x: S = 1\n"}
TypeOrderSources == {SelfReference} \cup DeclaredLater \cup DeclaredBefore

Programs ==
    GenericCallSources \cup IndexSources \cup ChainSources \cup IfChainSources
        \cup MemberSources \cup AnnotationSources \cup FunctionSources
        \cup DeclarationSources \cup ImportSources \cup ExpectSources
        \cup ScopeSources \cup GenericScopeSources \cup TypeOrderSources

InitProg == \E text \in Programs : MainStart(Chars(text))

\* main() on each of the programs
SpecProg == InitProg /\ [][Next]_vars

----------------------------------------------------------------------------
(* Properties *)

LexReturned == lexer.st = "ok" /\ lexer.current >= ByteLen(lexer.contents)
ParseReturned == parser.st = "ok" /\ parser.current >= Len(parser.tokens)
CodegenReturned == codegen.st = "ok" /\ next_stmt > Len(codegen.statements)

\* C1: the stages run in the order lexer, parser, code generator; a stage starts
\* only when every stage before it returned with an empty error list; the .c file
\* is written only when all three returned with empty error lists; and what is
\* printed is the error list of the earliest stage that has one, nothing else.
C1_StagesGated ==
    /\ parser.st # "none" => LexReturned /\ lexer.errors = <<>>
    /\ codegen.st # "none" => /\ parser.st # "none"
                              /\ ParseReturned
                              /\ parser.errors = <<>>
    /\ lexer.errors # <<>> => parser.st = "none" /\ codegen.st = "none" /\ ~written
    /\ parser.errors # <<>> => codegen.st = "none" /\ ~written
    /\ codegen.errors # <<>> => ~written
    /\ written => /\ pc = "done"
                  /\ LexReturned /\ ParseReturned /\ CodegenReturned
                  /\ lexer.errors = <<>> /\ parser.errors = <<>> /\ codegen.errors = <<>>
                  /\ printed = NothingPrinted
    /\ printed.stage = "lexer" =>
          printed.errors = lexer.errors /\ lexer.errors # <<>> /\ parser.st = "none"
    /\ printed.stage = "parser" =>
          printed.errors = parser.errors /\ parser.errors # <<>> /\ codegen.st = "none"
    /\ printed.stage = "codegen" =>
          printed.errors = codegen.errors /\ codegen.errors # <<>> /\ ~written
    /\ printed.stage # "none" => pc = "done"
    /\ pc = "done" => written \/ printed.stage # "none"

\* main() returned after the parser stage recorded errors: they were printed and
\* the code generator was never built
C1_Witness ==
    /\ pc = "done"
    /\ printed.stage = "parser"
    /\ Len(parser.errors) > 0
    /\ lexer.errors = <<>>
    /\ codegen.st = "none"

\* the statement codegen() is about to emit, and what codegen_statement gives for it
StatementPending == pc = "codegen" /\ codegen.st = "ok" /\ next_stmt <= Len(codegen.statements)
StatementResult == CodegenStatement(codegen, codegen.statements[next_stmt])

GenericDefineAt(out, i) ==
    out[i] = "#define " /\ i + 2 <= Len(out) /\ out[i + 2] # "("
UndefAfter(out, i) ==
    \E j \in (i + 1)..(Len(out) - 1) : out[j] = "#undef " /\ out[j + 1] = out[i + 1]

\* C3: in the output as it stands after each top-level statement, every "#define
\* NAME" of a generic type parameter, from a generic declaration or from a generic
\* call, is followed by "#undef NAME": no such macro is still defined when the
\* output of the next top-level statement begins.
C3_DefinesUndefined ==
    \A i \in 1..Len(code) : GenericDefineAt(code, i) => UndefAfter(code, i)

\* the "#define" of a generic call (with its type argument) was emitted, its
\* "#undef" came from the drain, and a later statement was emitted after it
C3_Witness ==
    /\ next_stmt > 2
    /\ codegen.to_undef = <<>>
    /\ \E i \in 1..Len(code) :
          /\ GenericDefineAt(code, i)
          /\ code[i + 2] = " "
          /\ UndefAfter(code, i)

\* C4: Lexer::lex never aborts, whatever the text.
C4_LexNeverAborts == lexer.st # "panic"

\* C5: Codegen::codegen never aborts on the statement list the parser returned.
C5_CodegenNeverAborts == (parser.st = "ok" /\ parser.errors = <<>>) => codegen.st # "panic"

\* C6: Parser::parse never aborts on the token list the lexer returned.
C6_ParseNeverAborts == (LexReturned /\ lexer.errors = <<>>) => parser.st # "panic"

\* C7: Parser::parse terminates: no iteration of its loops leaves the cursor where
\* it was.
C7_ParseTerminates == parser.st # "hang"

NewlineChars(s) == Cardinality({i \in 1..Len(s) : s[i] = "\n"})
NewlineTokens(tokens) == Cardinality({i \in 1..Len(tokens) : tokens[i].kind = "Newline"})
NoQuotes(s) == \A i \in 1..Len(s) : s[i] # "\""

\* C9: in a text without literals, lex() returns as many Newline tokens as the
\* text has newline characters, the newline that ends a // comment included.
C9_OneNewlineTokenEach ==
    (LexReturned /\ NoQuotes(lexer.contents))
        => NewlineTokens(lexer.tokens) = NewlineChars(lexer.contents)

\* the text opens with the string literal "\a", whose escape is not a valid one,
\* and is ASCII
InvalidEscapeFirst(s) ==
    /\ Len(s) >= 4
    /\ s[1] = "\"" /\ s[2] = "\\" /\ s[3] = "a" /\ s[4] = "\""
    /\ \A i \in 1..Len(s) : Utf8Len(s[i]) = 1
\* the same text with the valid escape \\ in its place
ValidTwin(s) == [s EXCEPT ![3] = "\\"]
\* the tokens, the value of the first one left out
ButFirstValue(tokens) ==
    [i \in 1..Len(tokens) |-> IF i = 1 THEN [tokens[i] EXCEPT !.value = <<>>] ELSE tokens[i]]

\* C10: an invalid escape in a string literal records a SyntaxError and skips the
\* backslash and the character after it, no more: the literal ends at its own
\* closing quote and the tokens are those of the same text with a valid escape,
\* but for the literal's value.
C10_InvalidEscapeSkipsTwo ==
    (LexReturned /\ InvalidEscapeFirst(lexer.contents))
        => /\ \E j \in 1..Len(lexer.errors) : lexer.errors[j].name = "SyntaxError"
           /\ ButFirstValue(lexer.tokens)
                  = ButFirstValue(Lex(LexerNew(ValidTwin(lexer.contents))).tokens)

\* main() is running on one of the programs
Running(texts) == \E text \in texts : lexer.contents = Chars(text)
\* the parser has run the first iteration of its loop
FirstParsed == parser.st # "none" /\ parser.current > 0
\* the call of the statement `callee(...)` or `x = callee(...)`
CalledIn(e) == IF e.k = "Assignment" THEN e.right ELSE e

\* C11: a generic call name[T1, ..., Tn](args) parses to one GenericCall node and
\* nothing wrapped around it, records no error, and leaves the cursor on the
\* token after the closing parenthesis.
C11_GenericCallParsed ==
    (Running(GenericCallSources) /\ FirstParsed)
        => /\ parser.st = "ok"
           /\ parser.errors = <<>>
           /\ Len(parser.statements) = 1
           /\ parser.statements[1].k = "Expression"
           /\ CalledIn(parser.statements[1].expression).k = "GenericCall"
           /\ parser.current >= Len(parser.tokens) - 1

\* C12: base[expr], with the bracket not in the shape of a generic suffix, parses
\* to Index(base, expr) with the identifier as base and the operator expression
\* as index, records no error, and leaves the cursor on the token after the
\* closing bracket.
C12_IndexParsed ==
    (Running(IndexSources) /\ FirstParsed)
        => /\ parser.st = "ok"
           /\ parser.errors = <<>>
           /\ Len(parser.statements) = 1
           /\ parser.statements[1].k = "Expression"
           /\ parser.statements[1].expression.k = "Index"
           /\ parser.statements[1].expression.expression.k = "Identifier"
           /\ parser.statements[1].expression.index.k = "Binary"
           /\ parser.current >= Len(parser.tokens) - 1

\* the level of a binary operator, given its token kind
Level(kind) == (CHOOSE o \in BinaryOperators : o[2] = kind)[3]
IsName(e, name) == e.k = "Identifier" /\ e.name = name
IsBinary(e, op) == e.k = "Binary" /\ e.op = op

\* C13: * / % bind tighter than + -, which bind tighter than the comparisons, and
\* operators of one level group to the left: a op1 b op2 c parses to
\* Binary(op1, a, Binary(op2, b, c)) when op2 is of a higher level than op1, and
\* to Binary(op2, Binary(op1, a, b), c) otherwise.
C13_Precedence ==
    (Running(ChainSources) /\ ParseReturned)
        => /\ parser.errors = <<>>
           /\ Len(parser.statements) = 1
           /\ parser.statements[1].k = "Expression"
           /\ LET e == parser.statements[1].expression
                  op1 == parser.tokens[2].kind
                  op2 == parser.tokens[4].kind
              IN  IF Level(op2) > Level(op1)
                  THEN /\ IsBinary(e, op1)
                       /\ IsName(e.left, "a")
                       /\ IsBinary(e.right, op2)
                       /\ IsName(e.right.left, "b")
                       /\ IsName(e.right.right, "c")
                  ELSE /\ IsBinary(e, op2)
                       /\ IsBinary(e.left, op1)
                       /\ IsName(e.left.left, "a")
                       /\ IsName(e.left.right, "b")
                       /\ IsName(e.right, "c")

\* a + b * c has been parsed, and the product is the right operand of the sum
C13_Witness ==
    /\ Running({"a + b * c\n"})
    /\ ParseReturned
    /\ Len(parser.statements) = 1
    /\ IsBinary(parser.statements[1].expression, "Plus")
    /\ IsBinary(parser.statements[1].expression.right, "Star")

RECURSIVE IsIfChain(_, _, _)
\* the node is the If of a chain with n `else if` branches left: its else-body is
\* the one nested If while branches are left, and the last `else` (or nothing)
\* after them
IsIfChain(node, n, last) ==
    /\ node.k = "If"
    /\ Len(node.body) = 1
    /\ IF n = 0
       THEN IF last THEN Len(node.else_body) = 1 /\ node.else_body[1].k = "Expression"
                    ELSE node.else_body = <<>>
       ELSE /\ Len(node.else_body) = 1
            /\ IsIfChain(node.else_body[1], n - 1, last)

\* C14: an if / else if / ... / end chain parses to right-nested Ifs, the
\* else-body of each holding exactly the one nested If, and the whole chain
\* takes one `end`: the statement after it is the next top-level statement.
C14_ElseIfChain ==
    \A n \in 0..MaxElseIfs : \A e \in LastElse :
        (Running({IfChainSource(n, e)}) /\ ParseReturned)
            => /\ parser.errors = <<>>
               /\ Len(parser.statements) = 2
               /\ IsIfChain(parser.statements[1], n, e # "")
               /\ parser.statements[2].k = "Expression"
               /\ IsName(parser.statements[2].expression, "q")

\* the longest chain has been parsed, and its second `else if` is two Ifs deep
C14_Witness ==
    /\ Running({IfChainSource(MaxElseIfs, "")})
    /\ ParseReturned
    /\ Len(parser.statements) = 2
    /\ parser.statements[1].else_body[1].else_body[1].k = "If"

\* the text holds the part
Occurs(text, part) ==
    \E i \in 0..(Len(text) - Len(part)) : SubSeq(text, i + 1, i + Len(part)) = part

\* C15: a call member on a known variable or a known parameter of pointer type
\* is emitted as obj->callee(obj, args...), the object passed as the first
\* argument, for a parameter exactly as for a variable.
C15_PointerMethodCall ==
    CodegenReturned
        => /\ Running({VariableMember("int*", "g(1)")}) => Occurs(Str(code), "v->g(v, 1)")
           /\ Running({ParameterMember("int*", "g(1)")}) => Occurs(Str(code), "p->g(p, 1)")

\* C16: a member access on a known variable or a known parameter whose type is
\* not a pointer records a RuntimeError, whether the member is a field or a call.
C16_NonPointerRejected ==
    (/\ CodegenReturned
     /\ Running({VariableMember("int", m) : m \in Members}
                    \cup {ParameterMember("int", m) : m \in Members}))
        => \E j \in 1..Len(codegen.errors) : codegen.errors[j].name = "RuntimeError"

\* the text ends with the part
EndsWith(text, part) ==
    Len(text) >= Len(part) /\ SubSeq(text, Len(text) - Len(part) + 1, Len(text)) = part
\* the generator recorded the error
Recorded(name, message) ==
    \E j \in 1..Len(codegen.errors) :
        codegen.errors[j].name = name /\ codegen.errors[j].message = message

\* C17, as the specification states it: an annotated statement that is not a
\* struct records a TypeError, a use of an undeclared annotation records a
\* TypeError, and for a struct with declared annotations no error is recorded and
\* the uses stand between the closing brace and the final semicolon.
C17_UsesAfterClosingBrace ==
    CodegenReturned
        => /\ Running({AnnotatedVariable, AnnotatedFunction})
                  => Recorded("TypeError", "cannot annotate this statement")
           /\ Running({UndeclaredUse}) => Recorded("TypeError", "unknown annotation A")
           /\ Running({OneUse, UseOnEmptyStruct, TwoUses}) => codegen.errors = <<>>
           /\ Running({OneUse}) => EndsWith(Str(code), "} A();\n")
           /\ Running({TwoUses}) => EndsWith(Str(code), "} A() B(1, 2);\n")
           /\ Running({UseOnEmptyStruct}) => EndsWith(Str(code), "} A(1);\n")

\* C17, amended: the uses stand right before the final semicolon of the struct's
\* text, which is after the closing brace when the struct has fields and after
\* the struct's name when it has none (the struct is then emitted without braces).
C17_UsesBeforeSemicolon ==
    CodegenReturned
        => /\ Running({AnnotatedVariable, AnnotatedFunction})
                  => Recorded("TypeError", "cannot annotate this statement")
           /\ Running({UndeclaredUse}) => Recorded("TypeError", "unknown annotation A")
           /\ Running({OneUse, UseOnEmptyStruct, TwoUses}) => codegen.errors = <<>>
           /\ Running({OneUse}) => EndsWith(Str(code), "} A();\n")
           /\ Running({TwoUses}) => EndsWith(Str(code), "} A() B(1, 2);\n")
           /\ Running({UseOnEmptyStruct}) => EndsWith(Str(code), "struct S A(1);\n")

\* the struct without fields has been emitted with its annotation use, and the
\* file written
C17_Witness ==
    /\ Running({UseOnEmptyStruct})
    /\ CodegenReturned
    /\ written
    /\ Occurs(Str(code), " A(1);")

\* every parameter is in the parameter table with its declared type
InScope(cg, args) ==
    \A i \in 1..Len(args) :
        /\ Has(cg.parameter_types, args[i][1])
        /\ cg.parameter_types[args[i][1]] = args[i][2]
\* the generator is about to emit a top-level function
FunctionNext ==
    /\ pc = "codegen"
    /\ codegen.st = "ok"
    /\ next_stmt <= Len(codegen.statements)
    /\ codegen.statements[next_stmt].k = "Function"
\* the generator after the header of the function s and the first k statements
\* of its body
InBody(s, k) == Body(FunctionHeader(codegen, <<s.name>>, s, TRUE), SubSeq(s.body, 1, k)).cg

\* C18: before and after every statement of a function's body every parameter of
\* the function is in the parameter table with its declared type, also when the
\* body holds a nested function with a parameter of the same name; and between
\* top-level statements the parameter table is empty.
C18_ParametersInScope ==
    /\ codegen.st = "ok" => codegen.parameter_types = EmptyMap
    /\ FunctionNext
           => \A k \in 0..Len(codegen.statements[next_stmt].body) :
                  InScope(InBody(codegen.statements[next_stmt], k),
                          codegen.statements[next_stmt].args)

\* the generator is about to emit a top-level constant
ConstantNext ==
    /\ pc = "codegen"
    /\ codegen.st = "ok"
    /\ next_stmt <= Len(codegen.statements)
    /\ codegen.statements[next_stmt].k = "Constant"

\* C19: the text of Constant(name, type, value) is `const ` followed by the text
\* of Variable(name, type, value), for every type: the array declarator and the
\* pointer-to-function declarator included.
C19_ConstantLikeVariable ==
    ConstantNext
        => Str(CodegenConstant(codegen, codegen.statements[next_stmt]).out)
               = "const " \o Str(CodegenVariable(codegen, codegen.statements[next_stmt]).out)

\* C20: the errors main() prints, which are those of the failing stage, are in
\* source order: their start offsets never decrease along the list.
C20_ErrorsInSourceOrder ==
    \A j \in 1..(Len(printed.errors) - 1) :
        printed.errors[j].location.start <= printed.errors[j + 1].location.start

\* the path without its first four characters
AfterStd(path) == SubSeq(path, Len(StdPrefix) + 1, Len(path))

\* C21: an import whose path begins with std/ is emitted as #include <rest>, rest
\* being the path without that one leading std/, and every other import as
\* #include "path" with the path as it is.
C21_ImportText ==
    (Running(ImportSources) /\ CodegenReturned)
        => /\ Len(codegen.statements) = 1
           /\ codegen.statements[1].k = "Import"
           /\ Str(code) = IF StartsWith(codegen.statements[1].path, StdPrefix)
                          THEN "#include <" \o Str(AfterStd(codegen.statements[1].path)) \o ">\n"
                          ELSE "#include \"" \o Str(codegen.statements[1].path) \o "\"\n"

\* kinds the parser passes to expect
ExpectedKinds ==
    {"Newline", "Identifier", "StringLit", "Colon", "Equal", "OpenParen", "CloseParen",
     "CloseBracket", "End"}
\* the positions the cursor can have on the parser's tokens, the end included
Cursors == 0..Len(parser.tokens)
\* the parser exists and has tokens, so that expect can be called
Parsing == parser.st # "none" /\ Len(parser.tokens) > 0

\* C22: the parser's cursor never moves backward: no step of parse() lowers
\* `current`, and no call of expect, failed ones included, returns with a lower
\* cursor than it was called with.
C22_CursorNeverBack ==
    [][/\ (parser.st # "none" /\ parser'.st # "none") => parser'.current >= parser.current
       /\ (parser'.st # "none" /\ Len(parser'.tokens) > 0)
              => \A cur \in 0..Len(parser'.tokens) : \A kind \in ExpectedKinds :
                     Expect(parser'.tokens, cur, kind).current >= cur]_vars

\* parse() returned with the cursor at the end, past an import whose newline was
\* missing: expect(Newline) failed on the way
C22_Witness ==
    /\ Running({"import \"a.h\" x\n"})
    /\ ParseReturned
    /\ parser.current = Len(parser.tokens)
    /\ Len(parser.statements) = 2

\* C23: expect(kind) on a token of that kind moves the cursor by exactly one and
\* returns the token; on a token of another kind, or at the end of the input, it
\* returns a token of kind Error with a message and leaves the cursor and the
\* parser's error list as they were (the statement list is not in its reach).
C23_ExpectFrame ==
    Parsing
        => \A cur \in Cursors : \A kind \in ExpectedKinds :
               /\ IF cur < Len(parser.tokens) /\ parser.tokens[cur + 1].kind = kind
                  THEN /\ Expect(parser.tokens, cur, kind).current = cur + 1
                       /\ Expect(parser.tokens, cur, kind).token = parser.tokens[cur + 1]
                  ELSE /\ Expect(parser.tokens, cur, kind).current = cur
                       /\ Expect(parser.tokens, cur, kind).token.kind = "Error"
                       /\ Expect(parser.tokens, cur, kind).token.value # <<>>
               /\ Eat(parser.tokens, PState(cur, parser.errors, "ok", NoValue), kind).errors
                      = parser.errors

\* the import without a path has been parsed: expect(StringLit) failed, its Error
\* token's message became the path, and no error was recorded
C23_Witness ==
    /\ Running({"import x\n"})
    /\ ParseReturned
    /\ parser.errors = <<>>
    /\ parser.statements[1].k = "Import"
    /\ parser.statements[1].path # <<>>
    /\ Head(parser.statements[1].path) = "expected "

\* C24: every token the lexer emits has a non-empty span, start < end, but for
\* the Newline tokens, whose span is empty, start = end.
C24_TokenSpans ==
    \A i \in 1..Len(lexer.tokens) :
        IF lexer.tokens[i].kind = "Newline"
        THEN lexer.tokens[i].location.start = lexer.tokens[i].location.end
        ELSE lexer.tokens[i].location.start < lexer.tokens[i].location.end

\* lex() returned a Newline token and, before it, a string literal that holds an
\* escape
C24_Witness ==
    /\ LexReturned
    /\ Len(lexer.tokens) = 2
    /\ lexer.tokens[1].kind = "StringLit"
    /\ lexer.tokens[1].value = <<"\\", "\\">>
    /\ lexer.tokens[2].kind = "Newline"

\* C25: every token's span lies inside the source, 0 <= start <= end <= length of
\* the source, also when the source ends inside a string or character literal
\* or right after an invalid escape; and the spans of consecutive tokens do not
\* overlap and are in increasing order.
C25_SpansInsideSource ==
    /\ \A i \in 1..Len(lexer.tokens) :
           /\ 0 <= lexer.tokens[i].location.start
           /\ lexer.tokens[i].location.start <= lexer.tokens[i].location.end
           /\ lexer.tokens[i].location.end <= ByteLen(lexer.contents)
    /\ \A i \in 1..(Len(lexer.tokens) - 1) :
           lexer.tokens[i].location.end <= lexer.tokens[i + 1].location.start

\* C29: every iteration of the loop of Lexer::lex that returns starts on a
\* character of the source and leaves `current` higher than it found it, so the
\* loop runs at most once per character and lex() terminates. (An iteration that
\* aborts ends the process.)
C29_LexProgress ==
    [][(lexer' # lexer /\ lexer'.st = "ok")
           => /\ lexer.current < Len(lexer.contents)
              /\ lexer'.current > lexer.current]_vars

\* lex() returned from a source of the greatest length, with one token per
\* character: the loop ran once for each
C29_Witness ==
    /\ LexReturned
    /\ Len(lexer.contents) = MaxSrcLen
    /\ Len(lexer.tokens) = MaxSrcLen

\* C26: between top-level statements the variable table holds only the variables
\* of the top-level scope: every name in it was declared by a `var` or `const`
\* that is itself a top-level statement already emitted, and none by a
\* declaration inside a function body.
C26_VariablesScoped ==
    codegen.st = "ok"
        => \A name \in DOMAIN codegen.variable_types :
               \E i \in 1..(next_stmt - 1) :
                   /\ codegen.statements[i].k \in {"Variable", "Constant"}
                   /\ codegen.statements[i].name = name

\* C27: the name of a generic type parameter is a type only while its generic
\* function is emitted: a later statement that uses the name as a type, the name
\* being no struct, enum or alias, records the TypeError of an unknown type.
C27_TypeParameterScoped ==
    (/\ Running({"func f[T](x: T): T\nreturn x\nend\nvar y: T = 1\n"})
     /\ CodegenReturned)
        => Recorded("TypeError", "Unknown type T")

\* C28: when an expect call fails because a token the grammar requires is
\* absent, some stage records an error, so the .c file is not written: not for
\* an import whose path is followed by another token instead of a newline, nor
\* for an import without a path.
C28_GrammarViolationNotWritten == Running(ImportViolations) => ~written

\* C30: a type name is resolved against the declarations emitted so far: the
\* field of a struct may have the struct's own type without an error, a struct,
\* an enum or an alias declared before its use is known, and one declared in a
\* later top-level statement records the TypeError of an unknown type.
C30_DeclaredBeforeUse ==
    CodegenReturned
        => /\ Running({SelfReference})
                  => codegen.errors = <<>> /\ Occurs(Str(code), "struct S* next;")
           /\ Running(DeclaredBefore) => codegen.errors = <<>>
           /\ Running(DeclaredLater) => Recorded("TypeError", "Unknown type S")

\* the struct with a field of its own type has been emitted, and the file written
C30_Witness ==
    /\ Running({SelfReference})
    /\ CodegenReturned
    /\ written
    /\ Contains(codegen.structs, "S")

====
